------------------------------ MODULE MCPrograms ------------------------------
(***************************************************************************)
(* Programs for TLC.                                                       *)
(***************************************************************************)
EXTENDS Programs

\* What the user types.
Typed == <<Press("c"), Press("enter")>>
CtrlC == <<Press("ctrl"), Press("c"), Release("ctrl")>>

MCScripts ==
  { Typed \o Typed \o CtrlC,
    Typed \o CtrlC \o Typed,
    Typed \o CtrlC \o CtrlC \o Typed,
    CtrlC \o Typed \o CtrlC,
    <<Press("c"), Press("back"), Press("back")>> \o Typed \o CtrlC,
    Typed \o Typed \o Typed \o Typed }

\* Texts shorter than the buffer, as long and longer; with a line's end inside or last.
MCMessages ==
  {<<"a">>, <<"b", "n">>, <<"a", "b">>, <<"n", "a">>, <<"a", "b", "a">>,
   <<"b", "n", "a", "b">>, <<"a", "b", "a", "b", "n">>}
MCLine == <<"b", "n">>
MCPrompt == <<"q">>

\* Six rooms in a ring.
MCTunnels == [r \in 1 .. 6 |-> {(r % 6) + 1, ((r + 4) % 6) + 1}]

\* Only in a game does it matter where things are placed, and only at the console what is typed.
MCInit ==
  /\ ProgramsInit
  /\ part = "game" \/ <<has_a_bat, has_a_pit, wumpus_loc, player_loc>> = <<{1}, {2}, 3, 4>>
  /\ part = "console" \/ user = Typed \o Typed \o CtrlC

MCSpec ==
  /\ MCInit
  /\ [][ProgramsNext /\ UNCHANGED part]_programsVars
  /\ ProgramsFairness
=============================================================================
