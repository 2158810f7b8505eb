---------------------------------- MODULE Wump ----------------------------------
(***************************************************************************)
(* The game of wump: the player moves and shoots in a cave of rooms with a *)
(* wumpus, bats and pits.  A random number is a choice of the action; a    *)
(* flight of the player with the bats and a room of an arrow's flight are  *)
(* actions of their own.  Messages are left out.                           *)
(***************************************************************************)
EXTENDS Integers, FiniteSets

CONSTANTS
  Tunnels,  \* cave: the rooms that the tunnels of each room lead to
  bat_num, pit_num, arrow_num,
  Reach     \* rooms that an arrow flies through: 5

Rooms == DOMAIN Tunnels

VARIABLES
  has_a_bat, has_a_pit,  \* the rooms that have one
  wumpus_loc, player_loc, arrows_left,
  turn,                  \* "play", "enter" a room, "arrow" in flight, or how the game ended
  just_moved_by_bats,
  arrow_location, roomcnt

things == <<has_a_bat, has_a_pit>>
flight == <<arrow_location, roomcnt>>
vars == <<has_a_bat, has_a_pit, wumpus_loc, player_loc, arrows_left, turn,
          just_moved_by_bats, arrow_location, roomcnt>>

OfSize(n) == {S \in SUBSET Rooms : Cardinality(S) = n}

\* initialize_things_in_cave: where all may be when a game starts.
Placings ==
  {g \in [bats : OfSize(bat_num), pits : OfSize(pit_num), wumpus : Rooms, player : Rooms] :
     g.bats \cap g.pits = {} /\ g.player \notin g.bats \cup g.pits \cup {g.wumpus}}

Init ==
  /\ \E g \in Placings : /\ has_a_bat = g.bats /\ has_a_pit = g.pits
                         /\ wumpus_loc = g.wumpus /\ player_loc = g.player
  /\ arrows_left = arrow_num /\ turn = "play"
  /\ just_moved_by_bats = FALSE /\ arrow_location = 0 /\ roomcnt = 0

-----------------------------------------------------------------------------
(* move_to *)

\* Where move_wump may take the wumpus.
Walks == Tunnels[wumpus_loc]

\* The wall is hit, which may wake the wumpus.
hit_wall ==
  /\ turn = "play"
  /\ wumpus_loc' \in Walks \cup {wumpus_loc}
  /\ turn' = IF wumpus_loc' = player_loc THEN "wump_walk_kill" ELSE "play"
  /\ UNCHANGED <<things, player_loc, arrows_left, just_moved_by_bats, flight>>

move_to(room) ==
  /\ turn = "play" /\ room \in Tunnels[player_loc]
  /\ player_loc' = room /\ turn' = "enter" /\ just_moved_by_bats' = FALSE
  /\ UNCHANGED <<things, wumpus_loc, arrows_left, flight>>

\* Mutant of AfterBats: where the bats drop the player nothing is looked for.
AfterBatsSafe == "play"

AfterBats == "enter"

\* What waits in the room: first the wumpus, then a pit, which may be survived, then bats,
\* which carry the player to another room, where this begins anew.
enter_room ==
  /\ turn = "enter"
  /\ IF wumpus_loc = player_loc
       THEN /\ turn' = IF just_moved_by_bats THEN "wump_bat_kill" ELSE "wump_kill"
            /\ UNCHANGED <<player_loc, just_moved_by_bats>>
     ELSE IF player_loc \in has_a_pit
       THEN turn' \in {"play", "pit_kill"} /\ UNCHANGED <<player_loc, just_moved_by_bats>>
     ELSE IF player_loc \in has_a_bat
       THEN player_loc' \in Rooms /\ just_moved_by_bats' = TRUE /\ turn' = AfterBats
     ELSE turn' = "play" /\ UNCHANGED <<player_loc, just_moved_by_bats>>
  /\ UNCHANGED <<things, wumpus_loc, arrows_left, flight>>

-----------------------------------------------------------------------------
(* shoot *)

shoot ==
  /\ turn = "play" /\ turn' = "arrow"
  /\ arrow_location' = player_loc /\ roomcnt' = 1
  /\ UNCHANGED <<things, wumpus_loc, player_loc, arrows_left,
                 just_moved_by_bats>>

\* The arrow flies to the room named if a tunnel leads there, else through any tunnel.
fly(next) ==
  /\ turn = "arrow" /\ roomcnt <= Reach
  /\ arrow_location' \in IF next \in Tunnels[arrow_location] THEN {next}
                         ELSE Tunnels[arrow_location]
  /\ turn' = IF arrow_location' = wumpus_loc THEN "kill_wump"
             ELSE IF arrow_location' = player_loc THEN "shoot_self" ELSE "arrow"
  /\ roomcnt' = roomcnt + 1
  /\ UNCHANGED <<things, wumpus_loc, player_loc, arrows_left,
                 just_moved_by_bats>>

\* It is spent: the list ends, the fourth or fifth room is too far, or a sixth is named.
\* The wumpus may move, which gets more likely with each shot.
land ==
  /\ turn = "arrow"
  /\ arrows_left' = arrows_left - 1
  /\ IF arrows_left' = 0
       THEN turn' = "no_arrows" /\ UNCHANGED wumpus_loc
       ELSE /\ wumpus_loc' \in Walks \cup {wumpus_loc}
            /\ turn' = IF wumpus_loc' = player_loc THEN "wump_walk_kill" ELSE "play"
  /\ arrow_location' = 0 /\ roomcnt' = 0
  /\ UNCHANGED <<things, player_loc, just_moved_by_bats>>

Next ==
  \/ hit_wall \/ enter_room \/ shoot \/ land
  \/ \E room \in Rooms : move_to(room) \/ fly(room)

Spec == Init /\ [][Next]_vars

-----------------------------------------------------------------------------
(* Properties *)

\* When it is the player's turn the wumpus and the bats are somewhere else, wherever the
\* player, the bats and the wumpus have moved before.
TurnsBeginSafe == turn = "play" => player_loc \notin {wumpus_loc} \cup has_a_bat
=============================================================================
