---------------------------- MODULE ProgramsProofs ----------------------------
(***************************************************************************)
(* The console from key to command, a stream of the libc, the disk and the *)
(* game, each a specification of its own and then together, for all values *)
(* of their constants.                                                     *)
(*                                                                         *)
(* The console: what the shell executes is a line that was typed, unless a *)
(* Ctrl-C or another reader came between. term sends whole lines, so that  *)
(* what lies in the buffer after a newline is lines, and then what the     *)
(* shell holds followed by what lies in the buffer is lines too, from its  *)
(* beginning. A byte moves from one to the other without a change of the   *)
(* whole. When a handler or a command has taken something away, the next   *)
(* newline that is counted ends the disturbance, because the buffer then   *)
(* begins with a line again.                                               *)
(*                                                                         *)
(* The stream: at each step of a call what is left to write is what the    *)
(* buffer holds, followed by the part of the text that the step has not    *)
(* reached; and the text has room behind what the buffer holds.            *)
(*                                                                         *)
(* The disk: every place of the buffer, and every byte of the disk, lies   *)
(* in just one of the sectors that a transfer goes through.                *)
(*                                                                         *)
(* The game: between turns the player is with neither the bats nor the     *)
(* wumpus, and no room has both bats and a pit.                            *)
(***************************************************************************)
EXTENDS Programs, SequenceTheorems, TLAPS

-----------------------------------------------------------------------------
(* Texts and lines *)

\* Part a to b of text s ends where its first newline is.
UpToNewline(s, a, b) == a <= b /\ s[b] = Newline /\ \A k \in a .. b - 1 : s[k] # Newline

Ends(s) == s # <<>> => s[Len(s)] = Newline

\* What a text holds after a newline, up to the next one, is one of these lines.
Inner(s, L) ==
  \A a, b \in 1 .. Len(s) :
    a > 1 /\ s[a - 1] = Newline /\ UpToNewline(s, a, b) => SubSeq(s, a, b) \in L

\* So is its beginning.
First(s, L) == \A b \in 1 .. Len(s) : UpToNewline(s, 1, b) => SubSeq(s, 1, b) \in L

\* The beginning of a text.
LEMMA PrefixProperties ==
  ASSUME NEW s, NEW n \in Nat, \A k \in 1 .. n : s[k] \in Keys
  PROVE  /\ SubSeq(s, 1, n) \in Seq(Keys) /\ Len(SubSeq(s, 1, n)) = n
         /\ \A k \in 1 .. n : SubSeq(s, 1, n)[k] = s[k]
<1>1. 1 \in Int /\ n \in Int /\ n - 1 + 1 = n
  OBVIOUS
<1>2. /\ SubSeq(s, 1, n) \in Seq(Keys)
      /\ Len(SubSeq(s, 1, n)) = IF 1 <= n THEN n - 1 + 1 ELSE 0
      /\ \A k \in 1 .. n - 1 + 1 : SubSeq(s, 1, n)[k] = s[1 + k - 1]
  BY <1>1, SubSeqProperties
<1>3. Len(SubSeq(s, 1, n)) = n
  BY <1>2
<1>4. \A k \in 1 .. n : 1 + k - 1 = k
  OBVIOUS
<1> QED BY <1>1, <1>2, <1>3, <1>4

\* A text to which a line is added.
LEMMA LineAdded ==
  ASSUME NEW s \in Seq(Keys), Ends(s), NEW L, NEW line \in Seq(Keys), line # <<>>,
         \A k \in 1 .. Len(line) : line[k] = Newline <=> k = Len(line)
  PROVE  /\ Ends(s \o line)
         /\ Inner(s, L) => Inner(s \o line, L \cup {line})
         /\ First(s, L) => First(s \o line, L \cup {line})
<1> DEFINE t == s \o line
<1>1. /\ t \in Seq(Keys) /\ Len(t) = Len(s) + Len(line) /\ Len(s) \in Nat
      /\ Len(line) \in Nat \ {0}
      /\ \A k \in 1 .. Len(s) : t[k] = s[k]
      /\ \A k \in Len(s) + 1 .. Len(t) : t[k] = line[k - Len(s)]
  BY ConcatProperties, EmptySeq, LenProperties
<1>2. Len(s) > 0 => s[Len(s)] = Newline
  BY <1>1, EmptySeq DEF Ends
<1>3. \A k \in Len(s) + 1 .. Len(t) : t[k] = Newline <=> k = Len(t)
  <2> SUFFICES ASSUME NEW k \in Len(s) + 1 .. Len(t)
               PROVE  t[k] = Newline <=> k = Len(t)
    OBVIOUS
  <2>1. k - Len(s) \in 1 .. Len(line) /\ (k - Len(s) = Len(line) <=> k = Len(t))
    BY <1>1
  <2> QED BY <1>1, <2>1
<1>4. SubSeq(t, Len(s) + 1, Len(t)) = line
  <2>1. SubSeq(t, Len(s) + 1, Len(t)) = SubSeq(line, 1, Len(line))
    <3>1. Len(s) + 1 \in Len(s) + 1 .. Len(s) + Len(line)
          /\ Len(t) \in Len(s) + 1 .. Len(s) + Len(line)
          /\ (Len(s) + 1) - Len(s) = 1 /\ Len(t) - Len(s) = Len(line)
      BY <1>1
    <3> QED BY <3>1, SubSeqOfConcat2
  <2> QED BY <2>1, SubSeqFull
<1>5. \A a, b \in 1 .. Len(s) : SubSeq(t, a, b) = SubSeq(s, a, b)
  BY SubSeqOfConcat1
<1> HIDE DEF t
\* A part that ends with its first newline lies in the text or is the line.
<1>6. ASSUME NEW a \in 1 .. Len(t), NEW b \in 1 .. Len(t), UpToNewline(t, a, b),
             a = 1 \/ t[a - 1] = Newline
      PROVE  \/ a \in 1 .. Len(s) /\ b \in 1 .. Len(s) /\ UpToNewline(s, a, b)
                /\ (a = 1 \/ s[a - 1] = Newline)
             \/ SubSeq(t, a, b) = line
  <2>1. a <= b /\ t[b] = Newline /\ \A k \in a .. b - 1 : t[k] # Newline
    BY <1>6 DEF UpToNewline
  <2>2. CASE b <= Len(s)
    <3>1. a \in 1 .. Len(s) /\ b \in 1 .. Len(s)
      BY <1>1, <2>1, <2>2
    <3>2. s[b] = Newline /\ \A k \in a .. b - 1 : s[k] # Newline
      BY <1>1, <2>1, <3>1
    <3>3. a = 1 \/ s[a - 1] = Newline
      <4> SUFFICES ASSUME a # 1
                   PROVE  s[a - 1] = Newline
        OBVIOUS
      <4>1. a - 1 \in 1 .. Len(s) BY <1>1, <3>1
      <4>2. t[a - 1] = s[a - 1] BY <1>1, <4>1
      <4>3. t[a - 1] = Newline BY <1>6
      <4> QED BY <4>2, <4>3
    <3> QED BY <2>1, <3>1, <3>2, <3>3 DEF UpToNewline
  <2>3. CASE b > Len(s)
    <3>1. b = Len(t)
      BY <1>1, <1>3, <2>1, <2>3
    <3>2. a > Len(s)
      <4> SUFFICES ASSUME a <= Len(s)
                   PROVE  FALSE
        BY <1>1
      <4>1. Len(s) \in a .. b - 1 /\ Len(s) \in 1 .. Len(s)
        BY <1>1, <2>3
      <4>2. s[Len(s)] = Newline /\ t[Len(s)] = s[Len(s)]
        BY <1>1, <1>2, <4>1
      <4>3. t[Len(s)] # Newline
        BY <2>1, <4>1
      <4> QED BY <4>2, <4>3
    <3>3. a = Len(s) + 1
      <4>1. a \in Int /\ Len(s) \in Nat
        BY <1>1
      <4>2. CASE a > Len(s) + 1
        <5>1. a - 1 \in Len(s) + 1 .. Len(t) /\ a - 1 # Len(t) /\ a # 1
          BY <1>1, <4>2
        <5> QED BY <1>3, <1>6, <5>1
      <4> QED BY <3>2, <4>1, <4>2
    <3> QED BY <1>4, <3>1, <3>3
  <2> QED BY <1>1, <2>2, <2>3
<1>7. Ends(t)
  BY <1>1, <1>3 DEF Ends
<1>8. ASSUME Inner(s, L)
      PROVE  Inner(t, L \cup {line})
  <2> SUFFICES ASSUME NEW a \in 1 .. Len(t), NEW b \in 1 .. Len(t),
                      a > 1, t[a - 1] = Newline, UpToNewline(t, a, b),
                      SubSeq(t, a, b) # line
               PROVE  SubSeq(t, a, b) \in L
    BY DEF Inner
  <2>1. a \in 1 .. Len(s) /\ b \in 1 .. Len(s) /\ UpToNewline(s, a, b) /\ s[a - 1] = Newline
    BY <1>6
  <2> QED BY <1>5, <1>8, <2>1 DEF Inner
<1>9. ASSUME First(s, L)
      PROVE  First(t, L \cup {line})
  <2> SUFFICES ASSUME NEW b \in 1 .. Len(t), UpToNewline(t, 1, b), SubSeq(t, 1, b) # line
               PROVE  SubSeq(t, 1, b) \in L
    BY DEF First
  <2>1. 1 \in 1 .. Len(t)
    BY <1>1
  <2>2. 1 \in 1 .. Len(s) /\ b \in 1 .. Len(s) /\ UpToNewline(s, 1, b)
    BY <1>6, <2>1
  <2> QED BY <1>5, <1>9, <2>2 DEF First
<1> QED BY <1>7, <1>8, <1>9 DEF t

\* A text from which the first character is taken.
LEMMA FirstTaken ==
  ASSUME NEW s \in Seq(Keys), s # <<>>, Ends(s), NEW L, Inner(s, L)
  PROVE  /\ Ends(Tail(s)) /\ Inner(Tail(s), L)
         /\ Head(s) = Newline => First(Tail(s), L)
<1> DEFINE t == Tail(s)
<1>1. /\ t \in Seq(Keys) /\ Len(s) \in Nat \ {0} /\ Len(t) = Len(s) - 1
      /\ \A k \in 1 .. Len(t) : t[k] = s[k + 1]
      /\ t = SubSeq(s, 2, Len(s)) /\ Head(s) = s[1]
  BY HeadTailProperties, TailIsSubSeq, EmptySeq
<1>2. ASSUME NEW a \in 1 .. Len(t), NEW b \in 1 .. Len(t), a <= b
      PROVE  SubSeq(t, a, b) = SubSeq(s, a + 1, b + 1)
  <2>1. /\ 2 \in 1 .. Len(s) /\ Len(s) \in 1 .. Len(s)
        /\ a \in 1 .. Len(s) - 2 + 1 /\ b \in 1 .. Len(s) - 2 + 1
        /\ 2 + a - 1 = a + 1 /\ 2 + b - 1 = b + 1
    BY <1>1
  <2>2. SubSeq(SubSeq(s, 2, Len(s)), a, b) = SubSeq(s, 2 + a - 1, 2 + b - 1)
    BY <2>1, SubSeqOfSubSeq
  <2> QED BY <1>1, <2>1, <2>2
<1> HIDE DEF t
<1>3. ASSUME NEW a \in 1 .. Len(t), NEW b \in 1 .. Len(t), UpToNewline(t, a, b)
      PROVE  /\ a + 1 \in 1 .. Len(s) /\ b + 1 \in 1 .. Len(s) /\ a <= b
             /\ UpToNewline(s, a + 1, b + 1)
  <2>1. a <= b /\ t[b] = Newline /\ \A k \in a .. b - 1 : t[k] # Newline
    BY <1>3 DEF UpToNewline
  <2>2. a + 1 \in 1 .. Len(s) /\ b + 1 \in 1 .. Len(s) /\ s[b + 1] = Newline
    BY <1>1, <2>1
  <2>3. ASSUME NEW k \in a + 1 .. (b + 1) - 1
        PROVE  s[k] # Newline
    <3>1. k - 1 \in a .. b - 1 /\ k - 1 \in 1 .. Len(t) /\ (k - 1) + 1 = k
      BY <1>1
    <3> QED BY <1>1, <2>1, <3>1
  <2> QED BY <2>1, <2>2, <2>3 DEF UpToNewline
<1>4. Ends(t)
  <2> SUFFICES ASSUME t # <<>>
               PROVE  t[Len(t)] = Newline
    BY DEF Ends
  <2>1. Len(t) \in 1 .. Len(t) /\ Len(t) + 1 = Len(s)
    BY <1>1, EmptySeq
  <2> QED BY <1>1, <2>1 DEF Ends
<1>5. Inner(t, L)
  <2> SUFFICES ASSUME NEW a \in 1 .. Len(t), NEW b \in 1 .. Len(t),
                      a > 1, t[a - 1] = Newline, UpToNewline(t, a, b)
               PROVE  SubSeq(t, a, b) \in L
    BY DEF Inner
  <2>1. a - 1 \in 1 .. Len(t) /\ (a - 1) + 1 = a /\ (a + 1) - 1 = a /\ a + 1 > 1
    BY <1>1
  <2>2. s[(a + 1) - 1] = Newline
    BY <1>1, <2>1
  <2>3. SubSeq(s, a + 1, b + 1) \in L
    BY <1>3, <2>1, <2>2 DEF Inner
  <2> QED BY <1>2, <1>3, <2>3
<1>6. ASSUME Head(s) = Newline
      PROVE  First(t, L)
  <2> SUFFICES ASSUME NEW b \in 1 .. Len(t), UpToNewline(t, 1, b)
               PROVE  SubSeq(t, 1, b) \in L
    BY DEF First
  <2>1. 1 \in 1 .. Len(t) /\ s[(1 + 1) - 1] = Newline /\ 1 + 1 > 1
    BY <1>1, <1>6
  <2>2. SubSeq(s, 1 + 1, b + 1) \in L
    BY <1>3, <2>1 DEF Inner
  <2> QED BY <1>2, <1>3, <2>1, <2>2
<1> QED BY <1>4, <1>5, <1>6 DEF t

-----------------------------------------------------------------------------
(* The invariant *)

Sent == {lines[j] : j \in DOMAIN lines}

\* How much of the line the shell holds, with the byte that is read and not yet counted.
Held == IF shell = "count" THEN buf_sz + 1 ELSE buf_sz
Stream == SubSeq(buf, 1, Held) \o stdin

Executed == [line : Seq(Keys), disturbed : BOOLEAN]

Types ==
  /\ user \in Seq(Event) /\ keys \in Seq(Event) /\ batch \in Seq(Event)
  /\ m_position \in Nat
  /\ input_linebuf \in Seq(Keys) /\ stdin \in Seq(Keys) /\ buf \in Seq(Keys)
  /\ lines \in Seq(Seq(Keys)) /\ executed \in Seq(Executed) /\ disturbed \in BOOLEAN
  /\ buf_sz \in Nat /\ Held <= Len(buf)

\* In the line that term edits a newline is the last character, and then it is sent.
LineEdited ==
  /\ \A k \in 1 .. Len(input_linebuf) : input_linebuf[k] = Newline => k = Len(input_linebuf)
  /\ at = "write" <=> input_linebuf # <<>> /\ input_linebuf[Len(input_linebuf)] = Newline

\* A command reads only while the shell does not.
OneReader == command = "running" => shell \in {"assign", "announce", "wait", "astray"}

HandlerDisturbs == handling # "no" => disturbed

\* What was counted is no newline; if the byte just read is one, the rest begins a line.
LineCounted ==
  /\ \A k \in 1 .. buf_sz : buf[k] # Newline
  /\ shell = "count" /\ buf[Held] = Newline => First(stdin, Sent)

WholeLines ==
  /\ Ends(stdin) /\ Inner(stdin, Sent)
  /\ ~disturbed => Ends(Stream) /\ First(Stream, Sent)

IInv ==
  /\ Types /\ LineEdited /\ OneReader /\ HandlerDisturbs /\ LineCounted /\ WholeLines
  /\ CommandsAreLines

LEMMA InitIInv ==
  ASSUME Init
  PROVE  IInv
<1>1. user \in Seq(Event)
  BY ScriptsAssumption DEF Init
<1>2. Types
  <2>1. \A S : <<>> \in Seq(S) /\ Len(<<>>) = 0
    BY EmptySeq
  <2>2. Held = 0
    BY DEF Init, Held
  <2>3. user \in Seq(Event) /\ keys \in Seq(Event) /\ batch \in Seq(Event)
    BY <1>1, <2>1 DEF Init
  <2>4. /\ input_linebuf \in Seq(Keys) /\ stdin \in Seq(Keys) /\ buf \in Seq(Keys)
        /\ lines \in Seq(Seq(Keys)) /\ executed \in Seq(Executed)
    BY <2>1 DEF Init
  <2>5. m_position \in Nat /\ buf_sz \in Nat /\ disturbed \in BOOLEAN /\ Held <= Len(buf)
    <3>1. buf = <<>> /\ 0 <= 0
      BY DEF Init
    <3> QED BY <2>1, <2>2, <3>1 DEF Init
  <2> QED BY <2>3, <2>4, <2>5 DEF Types
<1>3. LineEdited /\ OneReader /\ HandlerDisturbs /\ LineCounted
  BY DEF Init, LineEdited, OneReader, HandlerDisturbs, LineCounted
<1>4. stdin = <<>> /\ Stream = <<>>
  <2>1. stdin = <<>> /\ buf = <<>> /\ Held = 0
    BY DEF Init, Held
  <2>2. SubSeq(buf, 1, Held) = <<>>
    BY <2>1, SubSeqEmpty
  <2>3. <<>> \o <<>> = <<>>
    BY ConcatEmptySeq, EmptySeq
  <2> QED BY <2>1, <2>2, <2>3 DEF Stream
<1>5. WholeLines
  BY <1>4 DEF WholeLines, Ends, Inner, First
<1>6. CommandsAreLines
  BY DEF Init, CommandsAreLines
<1> QED BY <1>2, <1>3, <1>5, <1>6 DEF IInv

-----------------------------------------------------------------------------
(* The steps *)

LEMMA HeldType ==
  ASSUME Types
  PROVE  /\ Held \in Nat /\ SubSeq(buf, 1, Held) \in Seq(Keys) /\ Stream \in Seq(Keys)
         /\ Len(SubSeq(buf, 1, Held)) = Held
         /\ \A k \in 1 .. Held : buf[k] \in Keys /\ SubSeq(buf, 1, Held)[k] = buf[k]
<1>1. Held \in Nat
  BY DEF Types, Held
<1>2. \A k \in 1 .. Held : buf[k] \in Keys
  BY <1>1, LenProperties DEF Types
<1>3. /\ SubSeq(buf, 1, Held) \in Seq(Keys) /\ Len(SubSeq(buf, 1, Held)) = Held
      /\ \A k \in 1 .. Held : SubSeq(buf, 1, Held)[k] = buf[k]
  BY <1>1, <1>2, PrefixProperties
<1> QED BY <1>1, <1>2, <1>3, ConcatProperties DEF Stream, Types

\* Steps that leave the lines alone, wherever they are on their way.
LEMMA QuietStep ==
  ASSUME IInv, Types', LineEdited', OneReader', HandlerDisturbs',
         UNCHANGED <<stdin, buf, buf_sz, lines, executed>>,
         shell' = "count" <=> shell = "count",
         disturbed => disturbed'
  PROVE  IInv'
<1>1. Held' = Held /\ Sent' = Sent
  BY DEF Held, Sent
<1>2. Stream' = Stream
  BY <1>1 DEF Stream
<1>3. LineCounted'
  BY <1>1 DEF IInv, LineCounted
<1>4. WholeLines'
  BY <1>1, <1>2 DEF IInv, WholeLines
<1>5. CommandsAreLines'
  BY DEF IInv, CommandsAreLines
<1> QED BY <1>3, <1>4, <1>5 DEF IInv

LEMMA KeyStep ==
  ASSUME IInv, key \/ poll \/ feed_lines
  PROVE  IInv'
<1>1. Types
  BY DEF IInv
<1>2. UNCHANGED <<input_linebuf, sh, handling, child, history, stdin>>
      /\ (at' = "write" <=> at = "write")
  BY DEF key, poll, feed_lines, term
<1>3. user' \in Seq(Event) /\ keys' \in Seq(Event) /\ batch' \in Seq(Event) /\ m_position' \in Nat
  <2>1. CASE key
    <3>1. Head(user) \in Event /\ Tail(user) \in Seq(Event)
      BY <1>1, <2>1, HeadTailProperties DEF key, Types
    <3> QED BY <1>1, <2>1, <3>1, AppendProperties DEF key, Types, term
  <2>2. ASSUME NEW n \in 1 .. Len(keys) - m_position,
               batch' = SubSeq(keys, m_position + 1, m_position + n),
               m_position' = m_position + n
        PROVE  batch' \in Seq(Event) /\ m_position' \in Nat
    <3>1. m_position \in Nat /\ Len(keys) \in Nat
      BY <1>1, LenProperties DEF Types
    <3>2. \A k \in m_position + 1 .. m_position + n : keys[k] \in Event
      <4>1. \A k \in m_position + 1 .. m_position + n : k \in 1 .. Len(keys)
        BY <3>1
      <4> QED BY <1>1, <4>1, ElementOfSeq DEF Types
    <3>3. m_position + 1 \in Int /\ m_position + n \in Int /\ m_position + n \in Nat
      BY <3>1
    <3> QED BY <2>2, <3>2, <3>3, SubSeqProperties
  <2>3. CASE poll
    BY <1>1, <2>2, <2>3 DEF poll, Types
  <2>4. CASE feed_lines
    BY <1>1, <2>4 DEF feed_lines, Types, keyboard
  <2> QED BY <2>1, <2>3, <2>4
<1>4. Types'
  BY <1>1, <1>2, <1>3 DEF Types, Held, sh, history
<1>5. LineEdited' /\ OneReader' /\ HandlerDisturbs'
  BY <1>2 DEF IInv, LineEdited, OneReader, HandlerDisturbs, sh, child, history
<1> QED BY <1>2, <1>4, <1>5, QuietStep DEF sh, history

\* A newline in the line that is edited is its last character, and then it is written.
LEMMA EditStep ==
  ASSUME IInv, handle_key
  PROVE  IInv'
<1> DEFINE event == Head(batch)
           ctrl  == IF event.key = "ctrl" THEN ~event.released ELSE ctrl_held
           typed == ~event.released /\ event.key # "ctrl"
<1>1. Types /\ LineEdited
  BY DEF IInv
<1>2. event \in Event /\ event.key \in Keys /\ Tail(batch) \in Seq(Event)
  <2>1. batch \in Seq(Event) /\ batch # <<>>
    BY <1>1 DEF handle_key, Types
  <2>2. event \in Event /\ Tail(batch) \in Seq(Event)
    BY <2>1, HeadTailProperties
  <2> QED BY <2>2 DEF Event
<1>3. /\ at = "keys" /\ batch' = Tail(batch)
      /\ UNCHANGED <<keyboard, stdin, sh, child, lines, executed>>
      /\ disturbed' \in {disturbed, TRUE}
      /\ handling' # "no" => handling # "no" \/ disturbed'
      /\ disturbed => disturbed'
      /\ at' = IF typed /\ ~ctrl /\ event.key = Newline THEN "write" ELSE "keys"
      /\ input_linebuf' = IF ~typed THEN input_linebuf
                          ELSE IF ~ctrl THEN Edited(input_linebuf, event.key)
                          ELSE IF event.key = "c" THEN <<>> ELSE input_linebuf
  BY DEF handle_key
<1> HIDE DEF event, ctrl, typed
<1>4. \A k \in 1 .. Len(input_linebuf) : input_linebuf[k] # Newline
  <2>1. input_linebuf \in Seq(Keys)
    BY <1>1 DEF Types
  <2>2. ~ (input_linebuf # <<>> /\ input_linebuf[Len(input_linebuf)] = Newline)
    BY <1>1, <1>3 DEF LineEdited
  <2> QED BY <1>1, <2>1, <2>2, EmptySeq DEF LineEdited
<1>5. ASSUME input_linebuf' \in Seq(Keys), at' = "keys",
             \A k \in 1 .. Len(input_linebuf') : input_linebuf'[k] # Newline
      PROVE  LineEdited'
  <2>1. input_linebuf' # <<>> => Len(input_linebuf') \in 1 .. Len(input_linebuf')
    BY <1>5, EmptySeq
  <2> QED BY <1>5, <2>1 DEF LineEdited
<1>6. ASSUME input_linebuf' = input_linebuf \/ input_linebuf' = <<>>, at' = "keys"
      PROVE  input_linebuf' \in Seq(Keys) /\ LineEdited'
  <2>1. /\ input_linebuf' \in Seq(Keys)
        /\ \A k \in 1 .. Len(input_linebuf') : input_linebuf'[k] # Newline
    <3>1. CASE input_linebuf' = input_linebuf
      BY <1>1, <1>4, <3>1 DEF Types
    <3>2. CASE input_linebuf' = <<>>
      BY <3>2, EmptySeq
    <3> QED BY <1>6, <3>1, <3>2
  <2> QED BY <1>5, <1>6, <2>1
<1>7. ASSUME typed, ~ctrl
      PROVE  input_linebuf' \in Seq(Keys) /\ LineEdited'
  <2>1. input_linebuf' = Edited(input_linebuf, event.key)
        /\ at' = IF event.key = Newline THEN "write" ELSE "keys"
    BY <1>3, <1>7
  <2>2. CASE event.key = "back"
    <3>1. at' = "keys"
      BY <2>1, <2>2 DEF Newline
    <3>2. CASE input_linebuf = <<>>
      <4>1. input_linebuf' = input_linebuf
        BY <2>1, <2>2, <3>2 DEF Edited
      <4> QED BY <1>6, <3>1, <4>1
    <3>3. CASE input_linebuf # <<>>
      <4> DEFINE n == Len(input_linebuf) - 1
      <4>1. input_linebuf' = SubSeq(input_linebuf, 1, n)
        BY <2>1, <2>2, <3>3 DEF Edited, Front
      <4>2. n \in Nat /\ \A k \in 1 .. n : k \in 1 .. Len(input_linebuf)
        BY <1>1, <3>3, EmptySeq DEF Types
      <4>3. \A k \in 1 .. n : input_linebuf[k] \in Keys
        BY <1>1, <4>2, ElementOfSeq DEF Types
      <4> HIDE DEF n
      <4>4. /\ input_linebuf' \in Seq(Keys) /\ Len(input_linebuf') = n
            /\ \A k \in 1 .. n : input_linebuf'[k] = input_linebuf[k]
        BY <4>1, <4>2, <4>3, PrefixProperties
      <4>5. \A k \in 1 .. n : input_linebuf'[k] # Newline
        BY <1>4, <4>2, <4>4
      <4> QED BY <1>5, <3>1, <4>4, <4>5
    <3> QED BY <3>2, <3>3
  <2>3. CASE event.key # "back"
    <3> DEFINE n == Len(input_linebuf)
    <3>1. input_linebuf' = Append(input_linebuf, event.key)
      BY <2>1, <2>3 DEF Edited
    <3>2. /\ input_linebuf' \in Seq(Keys) /\ Len(input_linebuf') = n + 1 /\ n \in Nat
          /\ \A k \in 1 .. n : input_linebuf'[k] = input_linebuf[k]
          /\ input_linebuf'[n + 1] = event.key
      BY <1>1, <1>2, <3>1, AppendProperties, LenProperties DEF Types
    <3>3. \A k \in 1 .. n : input_linebuf'[k] # Newline
      BY <1>4, <3>2
    <3> HIDE DEF n
    <3>4. \A k \in 1 .. n + 1 : k # n + 1 => k \in 1 .. n
      BY <3>2
    <3>5. \A k \in 1 .. n + 1 : input_linebuf'[k] = Newline => k = n + 1
      BY <3>3, <3>4
    <3>6. CASE event.key = Newline
      <4>1. input_linebuf' # <<>>
        BY <3>2, EmptySeq
      <4>2. at' = "write" /\ input_linebuf'[Len(input_linebuf')] = Newline
        BY <2>1, <3>2, <3>6
      <4> QED BY <3>2, <3>5, <4>1, <4>2 DEF LineEdited
    <3>7. CASE event.key # Newline
      <4>1. at' = "keys" /\ \A k \in 1 .. n + 1 : input_linebuf'[k] # Newline
        BY <2>1, <3>2, <3>5, <3>7
      <4> QED BY <1>5, <3>2, <4>1
    <3> QED BY <3>6, <3>7
  <2> QED BY <2>2, <2>3
<1>8. input_linebuf' \in Seq(Keys) /\ LineEdited'
  <2>1. CASE ~(typed /\ ~ctrl)
    <3>1. at' = "keys" /\ (input_linebuf' = input_linebuf \/ input_linebuf' = <<>>)
      BY <1>3, <2>1
    <3> QED BY <1>6, <3>1
  <2> QED BY <1>7, <2>1
<1>9. Types'
  BY <1>1, <1>2, <1>3, <1>8 DEF Types, Held, keyboard, sh
<1>10. OneReader' /\ HandlerDisturbs'
  BY <1>3 DEF IInv, OneReader, HandlerDisturbs, sh, child
<1> QED BY <1>3, <1>8, <1>9, <1>10, QuietStep DEF sh

\* A whole line is added to whole lines.
LEMMA SendStep ==
  ASSUME IInv, send_line
  PROVE  IInv'
<1>1. /\ Types /\ LineEdited /\ WholeLines
      /\ at = "write" /\ stdin' = stdin \o input_linebuf /\ lines' = Append(lines, input_linebuf)
      /\ input_linebuf' = <<>> /\ at' = "keys"
      /\ UNCHANGED <<keyboard, batch, sh, handling, child, executed, disturbed>>
  BY DEF IInv, send_line
<1> DEFINE line == input_linebuf
<1>2. line \in Seq(Keys) /\ line # <<>>
      /\ \A k \in 1 .. Len(line) : line[k] = Newline <=> k = Len(line)
  BY <1>1 DEF LineEdited, Types
<1>3. Sent' = Sent \cup {line}
  <2>1. Len(lines) \in Nat /\ DOMAIN lines = 1 .. Len(lines)
        /\ DOMAIN lines' = 1 .. Len(lines) + 1
        /\ lines'[Len(lines) + 1] = line /\ \A j \in 1 .. Len(lines) : lines'[j] = lines[j]
    BY <1>1, <1>2, AppendProperties, LenProperties DEF Types
  <2>2. 1 .. Len(lines) + 1 = (1 .. Len(lines)) \cup {Len(lines) + 1}
    BY <2>1
  <2> QED BY <2>1, <2>2 DEF Sent
<1>4. Held' = Held /\ buf' = buf /\ buf_sz' = buf_sz /\ shell' = shell
  BY <1>1 DEF Held, sh
<1>5. Stream \in Seq(Keys) /\ Stream' = Stream \o line
  <2>1. SubSeq(buf, 1, Held) \in Seq(Keys) /\ stdin \in Seq(Keys) /\ Stream \in Seq(Keys)
    BY <1>1, HeldType DEF Types
  <2>2. (SubSeq(buf, 1, Held) \o stdin) \o line = SubSeq(buf, 1, Held) \o (stdin \o line)
    <3> DEFINE held == SubSeq(buf, 1, Held)
    <3> HIDE DEF held, line
    <3>1. held \in Seq(Keys) /\ stdin \in Seq(Keys) /\ line \in Seq(Keys)
      BY <1>2, <2>1 DEF held
    <3>2. (held \o stdin) \o line = held \o (stdin \o line)
      BY <3>1, ConcatAssociative
    <3> QED BY <3>2 DEF held
  <2> QED BY <1>1, <1>4, <2>1, <2>2 DEF Stream
<1> HIDE DEF line
<1>6. stdin \in Seq(Keys) /\ stdin' = stdin \o line
  BY <1>1 DEF Types, line
<1>7. /\ Ends(stdin') /\ Inner(stdin', Sent')
      /\ First(stdin, Sent) => First(stdin', Sent')
  BY <1>1, <1>2, <1>3, <1>6, LineAdded DEF WholeLines
<1>8. ~disturbed' => Ends(Stream') /\ First(Stream', Sent')
  BY <1>1, <1>2, <1>3, <1>5, LineAdded DEF WholeLines
<1>9. WholeLines'
  BY <1>7, <1>8 DEF WholeLines
<1>10. LineCounted'
  BY <1>4, <1>7 DEF IInv, LineCounted
<1>11. Types'
  <2>1. lines' \in Seq(Seq(Keys))
    BY <1>1, <1>2, AppendProperties DEF Types, line
  <2>2. stdin' \in Seq(Keys)
    BY <1>2, <1>6, ConcatProperties
  <2> QED BY <1>1, <1>4, <2>1, <2>2, EmptySeq DEF Types, keyboard
<1>12. LineEdited' /\ OneReader' /\ HandlerDisturbs'
  <2>1. LineEdited'
    BY <1>1 DEF LineEdited
  <2> QED BY <1>1, <2>1 DEF IInv, OneReader, HandlerDisturbs, sh, child
<1>13. CommandsAreLines'
  <2>1. \A i \in DOMAIN executed : executed[i].disturbed \/ executed[i].line \in Sent
    BY DEF IInv, CommandsAreLines, Sent
  <2>2. \A i \in DOMAIN executed : executed[i].disturbed \/ executed[i].line \in Sent'
    BY <1>3, <2>1
  <2> QED BY <1>1, <2>2 DEF CommandsAreLines, Sent
<1> QED BY <1>9, <1>10, <1>11, <1>12, <1>13 DEF IInv

\* A byte moves from the buffer to what the shell holds.
LEMMA ReadStep ==
  ASSUME IInv, read_byte
  PROVE  IInv'
<1>1. /\ Types /\ WholeLines /\ shell = "read" /\ shell' = "count" /\ handling = "no"
      /\ stdin # <<>> /\ stdin' = Tail(stdin) /\ buf_sz' = buf_sz
      /\ buf' = Append(SubSeq(buf, 1, buf_sz), Head(stdin)) \o SubSeq(buf, buf_sz + 2, Len(buf))
      /\ UNCHANGED <<keyboard, term, foreground_pid, handling, child, history>>
  BY DEF IInv, read_byte, Shell
<1> DEFINE old == SubSeq(buf, 1, buf_sz)
           rest == SubSeq(buf, buf_sz + 2, Len(buf))
           byte == Head(stdin)
<1>2. /\ buf_sz \in Nat /\ Held = buf_sz /\ Held' = buf_sz + 1
      /\ buf \in Seq(Keys) /\ stdin \in Seq(Keys) /\ Len(buf) \in Nat /\ buf_sz <= Len(buf)
  BY <1>1, LenProperties DEF Types, Held
<1>3. \A k \in 1 .. Len(buf) : buf[k] \in Keys
  BY <1>2, ElementOfSeq
<1>4. /\ old \in Seq(Keys) /\ Len(old) = buf_sz /\ \A k \in 1 .. buf_sz : old[k] = buf[k]
  BY <1>2, <1>3, PrefixProperties
<1>5. rest \in Seq(Keys) /\ Len(rest) \in Nat
  <2>1. buf_sz + 2 \in Int /\ Len(buf) \in Int
        /\ \A k \in buf_sz + 2 .. Len(buf) : buf[k] \in Keys
    BY <1>2, <1>3
  <2>2. rest \in Seq(Keys)
    BY <2>1, SubSeqProperties
  <2> QED BY <2>2, LenProperties
<1>6. byte \in Keys /\ Tail(stdin) \in Seq(Keys)
  BY <1>1, <1>2, HeadTailProperties
<1> HIDE DEF old, rest, byte
<1> DEFINE start == Append(old, byte)
<1>7. /\ start \in Seq(Keys) /\ Len(start) = buf_sz + 1 /\ start[buf_sz + 1] = byte
      /\ \A k \in 1 .. buf_sz : start[k] = buf[k]
      /\ start = old \o <<byte>>
  BY <1>4, <1>6, AppendProperties, AppendIsConcat
<1> HIDE DEF start
<1>8. buf' = start \o rest
  BY <1>1 DEF start, old, rest, byte
<1>9. /\ buf' \in Seq(Keys) /\ Len(buf') = buf_sz + 1 + Len(rest)
      /\ \A k \in 1 .. buf_sz + 1 : buf'[k] = start[k]
  <2>1. /\ start \o rest \in Seq(Keys) /\ Len(start \o rest) = Len(start) + Len(rest)
        /\ \A k \in 1 .. Len(start) + Len(rest) :
             (start \o rest)[k] = IF k <= Len(start) THEN start[k] ELSE rest[k - Len(start)]
    BY <1>5, <1>7, ConcatProperties
  <2>2. \A k \in 1 .. buf_sz + 1 : k \in 1 .. Len(start) + Len(rest) /\ k <= Len(start)
    BY <1>2, <1>5, <1>7
  <2> QED BY <1>7, <1>8, <2>1, <2>2
<1>10. SubSeq(buf', 1, Held') = start
  <2>1. buf_sz + 1 \in Nat /\ \A k \in 1 .. buf_sz + 1 : buf'[k] \in Keys
    BY <1>2, <1>7, <1>9, ElementOfSeq
  <2>2. /\ SubSeq(buf', 1, buf_sz + 1) \in Seq(Keys) /\ Len(SubSeq(buf', 1, buf_sz + 1)) = buf_sz + 1
        /\ \A k \in 1 .. buf_sz + 1 : SubSeq(buf', 1, buf_sz + 1)[k] = buf'[k]
    BY <2>1, PrefixProperties
  <2> QED BY <1>2, <1>7, <1>9, <2>2, SeqEqual
<1>11. Stream' = Stream
  <2>1. stdin = <<byte>> \o Tail(stdin)
    <3>1. /\ 1 \in 1 .. Len(stdin) /\ Len(stdin) \in 1 .. Len(stdin)
      BY <1>1, <1>2, EmptySeq
    <3>2. SubSeq(stdin, 1, Len(stdin)) = <<stdin[1]>> \o SubSeq(stdin, 1 + 1, Len(stdin))
      BY <1>2, <3>1, SubSeqRecursiveFirst
    <3>3. Tail(stdin) = SubSeq(stdin, 2, Len(stdin)) /\ byte = stdin[1]
      BY <1>1, <1>2, TailIsSubSeq, HeadTailProperties DEF byte
    <3> QED BY <1>2, <3>2, <3>3, SubSeqFull
  <2>2. <<byte>> \in Seq(Keys)
    BY <1>6
  <2>3. (old \o <<byte>>) \o Tail(stdin) = old \o (<<byte>> \o Tail(stdin))
    <3> DEFINE one == <<byte>>
               tail == Tail(stdin)
    <3>1. one \in Seq(Keys) /\ tail \in Seq(Keys)
      BY <1>6, <2>2
    <3> HIDE DEF one, tail
    <3>2. (old \o one) \o tail = old \o (one \o tail)
      BY <1>4, <3>1, ConcatAssociative
    <3> QED BY <3>2 DEF one, tail
  <2>4. Stream = old \o stdin
    BY <1>2 DEF Stream, old
  <2>5. Stream' = start \o Tail(stdin)
    BY <1>1, <1>10 DEF Stream
  <2> QED BY <1>7, <2>1, <2>3, <2>4, <2>5
<1>12. /\ Sent' = Sent /\ Ends(Tail(stdin)) /\ Inner(Tail(stdin), Sent)
       /\ byte = Newline => First(Tail(stdin), Sent)
  BY <1>1, <1>2, FirstTaken DEF WholeLines, Sent, history, byte
<1>13. WholeLines'
  BY <1>1, <1>11, <1>12 DEF WholeLines, history
<1>14. LineCounted'
  <2>1. \A k \in 1 .. buf_sz : buf'[k] = buf[k]
    <3>1. \A k \in 1 .. buf_sz : k \in 1 .. buf_sz + 1 BY <1>2
    <3>2. \A k \in 1 .. buf_sz + 1 : buf'[k] = start[k] BY <1>9
    <3>3. \A k \in 1 .. buf_sz : start[k] = buf[k] BY <1>7
    <3> QED BY <3>1, <3>2, <3>3
  <2>2. buf'[Held'] = byte
    <3>1. buf_sz + 1 \in 1 .. buf_sz + 1
      BY <1>2
    <3> QED BY <1>2, <1>7, <1>9, <3>1
  <2> QED BY <1>1, <1>12, <2>1, <2>2 DEF IInv, LineCounted
<1>15. Types'
  <2>1. Held' <= Len(buf')
    BY <1>2, <1>5, <1>9
  <2> QED BY <1>1, <1>6, <1>9, <2>1 DEF Types, keyboard, term, history
<1>16. LineEdited' /\ OneReader' /\ HandlerDisturbs' /\ CommandsAreLines'
  <2>1. LineEdited' /\ CommandsAreLines'
    BY <1>1 DEF IInv, LineEdited, CommandsAreLines, term, history
  <2>2. OneReader'
    BY <1>1 DEF IInv, OneReader, child
  <2>3. HandlerDisturbs'
    BY <1>1 DEF HandlerDisturbs
  <2> QED BY <2>1, <2>2, <2>3
<1> QED BY <1>13, <1>14, <1>15, <1>16 DEF IInv

\* A byte is counted; a newline ends a line, and what lies in the buffer begins one.
LEMMA CountStep ==
  ASSUME IInv, count_byte
  PROVE  IInv'
<1> DEFINE n == buf_sz + 1
<1>1. /\ Types /\ WholeLines /\ LineCounted /\ shell = "count" /\ handling = "no"
      /\ UNCHANGED <<keyboard, term, stdin, buf, handling, child, lines>>
  BY DEF IInv, count_byte, Shell
<1>2. Held = n /\ n \in Nat /\ n <= Len(buf) /\ buf_sz \in Nat /\ Sent' = Sent
  BY <1>1 DEF Types, Held, Sent
<1>3. LineEdited' /\ OneReader' /\ HandlerDisturbs'
  <2>1. command # "running"
    BY <1>1 DEF IInv, OneReader
  <2> QED BY <1>1, <2>1 DEF IInv, LineEdited, OneReader, HandlerDisturbs, term, child
<1>4. CASE buf[n] # Newline
  <2>1. shell' = "read" /\ buf_sz' = n /\ executed' = executed /\ disturbed' = disturbed
    BY <1>4 DEF count_byte
  <2>2. Held' = n /\ Stream' = Stream
    BY <1>1, <1>2, <2>1 DEF Held, Stream
  <2>3. Types'
    BY <1>1, <1>2, <2>1, <2>2 DEF Types, keyboard, term
  <2>4. LineCounted'
    <3>1. \A k \in 1 .. n : k # n => k \in 1 .. buf_sz
      BY <1>2
    <3>2. \A k \in 1 .. n : buf[k] # Newline
      BY <1>1, <1>4, <3>1 DEF LineCounted
    <3> QED BY <1>1, <2>1, <3>2 DEF LineCounted
  <2>5. WholeLines'
    BY <1>1, <1>2, <2>1, <2>2 DEF WholeLines
  <2>6. CommandsAreLines'
    BY <1>1, <2>1 DEF IInv, CommandsAreLines
  <2> QED BY <1>3, <2>3, <2>4, <2>5, <2>6 DEF IInv
<1>5. CASE buf[n] = Newline
  <2> DEFINE line == SubSeq(buf, 1, n)
             entry == [line |-> line, disturbed |-> disturbed]
  <2>1. /\ executed' = Append(executed, entry) /\ disturbed' = FALSE /\ buf_sz' = 0
        /\ shell' \in {"fork", "builtin", "prompt"}
    BY <1>5 DEF count_byte, Reset
  <2>2. /\ line \in Seq(Keys) /\ Len(line) = n /\ \A k \in 1 .. n : line[k] = buf[k]
        /\ Stream = line \o stdin /\ Stream \in Seq(Keys) /\ stdin \in Seq(Keys)
    BY <1>1, <1>2, HeldType DEF Stream, Types
  <2>3. First(stdin, Sent) /\ Ends(stdin)
    BY <1>1, <1>2, <1>5 DEF LineCounted, WholeLines
  <2>4. Held' = 0 /\ Stream' = stdin
    <3>1. Held' = 0
      BY <2>1 DEF Held
    <3>2. SubSeq(buf', 1, Held') = <<>>
      BY <3>1, SubSeqEmpty
    <3> QED BY <1>1, <2>2, <3>1, <3>2, ConcatEmptySeq DEF Stream
  <2> HIDE DEF line
  <2>5. disturbed \/ line \in Sent
    <3> SUFFICES ASSUME ~disturbed
                 PROVE  line \in Sent
      OBVIOUS
    <3>1. First(Stream, Sent)
      BY <1>1 DEF WholeLines
    <3>2. /\ Len(Stream) = n + Len(stdin) /\ Len(stdin) \in Nat
          /\ \A k \in 1 .. n : Stream[k] = line[k]
      <4>1. /\ Len(line \o stdin) = Len(line) + Len(stdin) /\ Len(stdin) \in Nat
            /\ \A k \in 1 .. Len(line) + Len(stdin) :
                 (line \o stdin)[k] = IF k <= Len(line) THEN line[k] ELSE stdin[k - Len(line)]
        BY <2>2, ConcatProperties, LenProperties
      <4>2. \A k \in 1 .. n : k \in 1 .. n + Len(stdin) /\ k <= n
        BY <1>2, <4>1
      <4> QED BY <2>2, <4>1, <4>2
    <3>3. UpToNewline(Stream, 1, n)
      <4>1. 1 <= n /\ n \in 1 .. n /\ n - 1 = buf_sz
            /\ \A k \in 1 .. n - 1 : k \in 1 .. n /\ k \in 1 .. buf_sz
        BY <1>2
      <4>2. Stream[n] = Newline
        BY <1>5, <2>2, <3>2, <4>1
      <4>3. \A k \in 1 .. n - 1 : Stream[k] # Newline
        BY <1>1, <2>2, <3>2, <4>1 DEF LineCounted
      <4> QED BY <4>1, <4>2, <4>3 DEF UpToNewline
    <3>4. n \in 1 .. Len(Stream)
      BY <1>2, <3>2
    <3>5. SubSeq(Stream, 1, n) \in Sent
      BY <3>1, <3>3, <3>4 DEF First
    <3>6. SubSeq(Stream, 1, n) = line
      <4>1. 1 \in 1 .. Len(line) /\ n \in 1 .. Len(line) /\ Len(line) = n
        BY <1>2, <2>2
      <4>2. SubSeq(line \o stdin, 1, n) = SubSeq(line, 1, n)
        BY <2>2, <4>1, SubSeqOfConcat1
      <4>3. SubSeq(line, 1, Len(line)) = line
        BY <2>2, SubSeqFull
      <4> QED BY <2>2, <4>1, <4>2, <4>3
    <3> QED BY <3>5, <3>6
  <2>6. entry \in Executed /\ entry.line = line /\ entry.disturbed = disturbed
    BY <1>1, <2>2 DEF Executed, Types
  <2> HIDE DEF entry
  <2>7. executed' \in Seq(Executed) /\ Len(executed') = Len(executed) + 1 /\ Len(executed) \in Nat
        /\ DOMAIN executed' = 1 .. Len(executed) + 1 /\ DOMAIN executed = 1 .. Len(executed)
        /\ executed'[Len(executed) + 1] = entry
        /\ \A i \in 1 .. Len(executed) : executed'[i] = executed[i]
    BY <1>1, <2>1, <2>6, AppendProperties, LenProperties DEF Types
  <2>8. CommandsAreLines'
    <3>1. \A i \in DOMAIN executed : executed[i].disturbed \/ executed[i].line \in Sent
      BY DEF IInv, CommandsAreLines, Sent
    <3>2. \A i \in DOMAIN executed' : i # Len(executed) + 1 => i \in DOMAIN executed
      BY <2>7
    <3>3. \A i \in DOMAIN executed' : executed'[i].disturbed \/ executed'[i].line \in Sent
      BY <2>5, <2>6, <2>7, <3>1, <3>2
    <3> QED BY <1>2, <3>3 DEF CommandsAreLines, Sent
  <2>9. Types'
    <3>1. 0 <= Len(buf')
      BY <1>1, <1>2
    <3> QED BY <1>1, <2>1, <2>4, <2>7, <3>1 DEF Types, keyboard, term
  <2>10. LineCounted'
    BY <2>1 DEF LineCounted
  <2>11. WholeLines'
    BY <1>1, <1>2, <2>3, <2>4 DEF WholeLines
  <2> QED BY <1>3, <2>8, <2>9, <2>10, <2>11 DEF IInv
<1> QED BY <1>4, <1>5

\* The handler may take the line away, and a command a byte.
LEMMA DisturbStep ==
  ASSUME IInv, handler_kill \/ command_reads
  PROVE  IInv'
<1>1. CASE handler_kill /\ buf_sz' = buf_sz
  <2>1. /\ UNCHANGED <<keyboard, term, stdin, buf, buf_sz, runs, history>>
        /\ command' = "running" => command = "running"
        /\ handling' = "no" /\ shell' \in {shell, "astray"}
        /\ shell' = "count" <=> shell = "count"
    BY <1>1 DEF handler_kill, Killed, InCall, Prints
  <2>2. Types' /\ LineEdited' /\ OneReader' /\ HandlerDisturbs'
    BY <2>1 DEF IInv, Types, Held, LineEdited, OneReader, HandlerDisturbs, keyboard, term, history
  <2> QED BY <2>1, <2>2, QuietStep DEF history
<1>2. CASE handler_kill /\ buf_sz' # buf_sz
  <2>1. /\ UNCHANGED <<keyboard, term, stdin, buf, command, runs, history>>
        /\ buf_sz' = 0 /\ handling' = "no" /\ disturbed
        /\ shell' \in {shell, "astray"} /\ (shell' = "count" <=> shell = "count")
    BY <1>2 DEF handler_kill, IInv, HandlerDisturbs, InCall, Prints
  <2>2. Types /\ Held' <= Held /\ Sent' = Sent
    BY <2>1 DEF IInv, Types, Held, Sent, history
  <2>3. Types'
    BY <2>1, <2>2, LenProperties DEF Types, Held, keyboard, term, history
  <2>4. LineEdited' /\ OneReader' /\ HandlerDisturbs' /\ CommandsAreLines'
    BY <2>1 DEF IInv, LineEdited, OneReader, HandlerDisturbs, CommandsAreLines, term, history
  <2>5. LineCounted'
    <3> SUFFICES ASSUME shell' = "count", buf'[Held'] = Newline
                 PROVE  FALSE
      BY <2>1 DEF LineCounted
    <3>1. Held' = 1 /\ 1 \in 1 .. buf_sz
      BY <1>2, <2>1, <2>2 DEF Held, Types
    <3> QED BY <2>1, <3>1 DEF IInv, LineCounted
  <2>6. WholeLines'
    BY <2>1, <2>2 DEF IInv, WholeLines, history
  <2> QED BY <2>3, <2>4, <2>5, <2>6 DEF IInv
<1>3. CASE command_reads
  <2>1. /\ UNCHANGED <<keyboard, term, sh, handling, child, lines, executed>>
        /\ stdin # <<>> /\ stdin' = Tail(stdin) /\ disturbed' = TRUE
        /\ shell # "count"
    BY <1>3 DEF command_reads, IInv, OneReader
  <2>2. Types /\ stdin \in Seq(Keys) /\ Tail(stdin) \in Seq(Keys) /\ Sent' = Sent
    BY <2>1, HeadTailProperties DEF IInv, Types, Sent
  <2>3. Types'
    BY <2>1, <2>2 DEF Types, Held, keyboard, term, sh
  <2>4. LineEdited' /\ OneReader' /\ HandlerDisturbs' /\ CommandsAreLines'
    BY <2>1 DEF IInv, LineEdited, OneReader, HandlerDisturbs, CommandsAreLines, term, sh, child
  <2>5. LineCounted'
    BY <2>1 DEF IInv, LineCounted, sh
  <2>6. WholeLines'
    BY <2>1, <2>2, FirstTaken DEF IInv, WholeLines
  <2> QED BY <2>3, <2>4, <2>5, <2>6 DEF IInv
<1> QED BY <1>1, <1>2, <1>3

\* The other steps move no byte.
LEMMA OtherStep ==
  ASSUME IInv,
         \/ \E writer \in {"shell", "handler", "command"} : finds_room(writer)
         \/ prints("prompt", "read") \/ prints("builtin", "prompt")
         \/ prints("announce", "wait") \/ prints("report", "prompt")
         \/ fork \/ assign \/ waitpid
         \/ handler_puts \/ command_prints \/ command_exits \/ faults
  PROVE  IInv'
<1> USE DEF finds_room, prints, fork, assign, waitpid, handler_puts, command_prints,
            command_exits, faults, Shell, sh
<1>1. /\ UNCHANGED <<keyboard, term, stdin, buf, buf_sz, history>>
      /\ (shell' # "count" /\ shell # "count") \/ shell' = shell
      /\ handling' # "no" => handling # "no"
  OBVIOUS
<1>2. command' = "running" =>
        \/ command = "running" /\ (shell' = shell \/ shell' \in {"announce", "wait"})
        \/ shell' = "assign"
  BY DEF child, IInv, OneReader
<1>3. Types'
  BY <1>1 DEF IInv, Types, Held, keyboard, term, history
<1>4. LineEdited' /\ OneReader' /\ HandlerDisturbs'
  BY <1>1, <1>2 DEF IInv, LineEdited, OneReader, HandlerDisturbs, term, history
<1> QED BY <1>1, <1>3, <1>4, QuietStep DEF history

\* Every step preserves the invariant.
LEMMA StepIInv ==
  ASSUME IInv, [Next]_vars
  PROVE  IInv'
<1>1. CASE key \/ faults \/ Term
  BY <1>1, KeyStep, EditStep, SendStep, OtherStep DEF Term
<1>2. CASE Main
  BY <1>2, ReadStep, CountStep, OtherStep DEF Main
<1>3. CASE Handler \/ Command
  BY <1>3, DisturbStep, OtherStep DEF Handler, Command
<1>4. CASE UNCHANGED vars
  <2>1. Types' /\ LineEdited' /\ OneReader' /\ HandlerDisturbs'
    BY <1>4 DEF vars, IInv, Types, Held, LineEdited, OneReader, HandlerDisturbs
  <2> QED BY <1>4, <2>1, QuietStep DEF vars
<1> QED BY <1>1, <1>2, <1>3, <1>4 DEF Next

\* What the shell executes is a line that was typed, whole, unless a Ctrl-C has struck while
\* it was read or a command has taken a part of it: for whatever is typed, and buffers of
\* any size.
THEOREM ExecutesLines ==
  Spec => []CommandsAreLines
<1>1. Init => IInv
  BY InitIInv
<1>2. IInv /\ [Next]_vars => IInv'
  BY StepIInv
<1>3. IInv => CommandsAreLines
  BY DEF IInv
<1> QED BY <1>1, <1>2, <1>3, PTL DEF Spec

-----------------------------------------------------------------------------
(* A stream of the libc *)

Streams == [buf : [Out!Cells -> Chars], idx : 0 .. BufSize, pending : Seq(Chars), ordered : BOOLEAN]

\* What of a text goes through the buffer.
Kept(text) == SubSeq(text, Out!Direct(text) + 1, Len(text))

\* All was written in its turn, and what is left to write is in the buffer, before rest.
InTurn(s, rest) == s \in Streams /\ s.ordered /\ s.pending = Out!Buffered(s) \o rest

LEMMA KeptFacts ==
  ASSUME Printing, NEW text \in Seq(Chars)
  PROVE  /\ Out!Direct(text) \in 0 .. Len(text) /\ Kept(text) \in Seq(Chars)
         /\ Len(Kept(text)) = Len(text) - Out!Direct(text) /\ Len(Kept(text)) <= BufSize
         /\ Out!Direct(text) > 0 => Len(text) > BufSize
         /\ SubSeq(text, 1, Out!Direct(text)) \in Seq(Chars)
         /\ SubSeq(text, 1, Out!Direct(text)) \o Kept(text) = text
         /\ \A i \in 1 .. Len(Kept(text)) : Kept(text)[i] = text[Out!Direct(text) + i]
         /\ \A i \in 1 .. Len(text) : text[i] \in Chars
<1> DEFINE d == Out!Direct(text)
           n == Len(text)
<1>1. n \in Nat /\ \A i \in 1 .. n : text[i] \in Chars
  BY LenProperties, ElementOfSeq
<1>2. d \in 0 .. n /\ n - d <= BufSize /\ (d > 0 => n > BufSize)
  BY <1>1 DEF Out!Direct, Printing
<1> HIDE DEF d, n
<1>3. /\ SubSeq(text, d + 1, n) \in Seq(Chars)
      /\ Len(SubSeq(text, d + 1, n)) = n - d
      /\ \A i \in 1 .. n - d : SubSeq(text, d + 1, n)[i] = text[d + i]
  <2>1. d + 1 \in Int /\ n \in Int /\ \A i \in d + 1 .. n : text[i] \in Chars
    BY <1>1, <1>2
  <2>2. /\ SubSeq(text, d + 1, n) \in Seq(Chars)
        /\ Len(SubSeq(text, d + 1, n)) = IF d + 1 <= n THEN n - (d + 1) + 1 ELSE 0
        /\ \A i \in 1 .. n - (d + 1) + 1 : SubSeq(text, d + 1, n)[i] = text[d + 1 + i - 1]
    BY <2>1, SubSeqProperties
  <2>3. n - (d + 1) + 1 = n - d /\ \A i \in 1 .. n - d : d + 1 + i - 1 = d + i
    BY <1>1, <1>2
  <2>4. Len(SubSeq(text, d + 1, n)) = n - d
    BY <1>1, <1>2, <2>2
  <2> QED BY <2>2, <2>3, <2>4
<1>4. /\ SubSeq(text, 1, d) \in Seq(Chars) /\ Len(SubSeq(text, 1, d)) = d
      /\ \A i \in 1 .. d : SubSeq(text, 1, d)[i] = text[i]
  <2>1. 1 \in Int /\ d \in Int /\ \A i \in 1 .. d : text[i] \in Chars
    BY <1>1, <1>2
  <2>2. /\ SubSeq(text, 1, d) \in Seq(Chars)
        /\ Len(SubSeq(text, 1, d)) = IF 1 <= d THEN d - 1 + 1 ELSE 0
        /\ \A i \in 1 .. d - 1 + 1 : SubSeq(text, 1, d)[i] = text[1 + i - 1]
    BY <2>1, SubSeqProperties
  <2>3. d - 1 + 1 = d /\ \A i \in 1 .. d : 1 + i - 1 = i
    BY <1>2
  <2>4. Len(SubSeq(text, 1, d)) = d
    BY <1>2, <2>2
  <2> QED BY <2>2, <2>3, <2>4
<1>5. SubSeq(text, 1, d) \o SubSeq(text, d + 1, n) = text
  <2> DEFINE a == SubSeq(text, 1, d)
             b == SubSeq(text, d + 1, n)
  <2> HIDE DEF a, b
  <2>1. /\ a \in Seq(Chars) /\ b \in Seq(Chars) /\ Len(a) = d /\ Len(b) = n - d
        /\ \A i \in 1 .. d : a[i] = text[i]
        /\ \A i \in 1 .. n - d : b[i] = text[d + i]
    BY <1>3, <1>4 DEF a, b
  <2>2. /\ a \o b \in Seq(Chars) /\ Len(a \o b) = Len(a) + Len(b)
        /\ \A i \in 1 .. Len(a) + Len(b) : (a \o b)[i] = IF i <= Len(a) THEN a[i] ELSE b[i - Len(a)]
    BY <2>1, ConcatProperties
  <2>3. Len(a \o b) = n /\ Len(a) + Len(b) = n
    BY <1>1, <1>2, <2>1, <2>2
  <2>a. \A i \in 1 .. n : (a \o b)[i] = IF i <= d THEN a[i] ELSE b[i - d]
    BY <2>1, <2>2, <2>3
  <2>4. ASSUME NEW i \in 1 .. n
        PROVE  (a \o b)[i] = text[i]
    <3>1. (a \o b)[i] = IF i <= d THEN a[i] ELSE b[i - d]
      BY <2>a
    <3>2. i <= d => i \in 1 .. d
      BY <1>1, <1>2
    <3>3. ~(i <= d) => i - d \in 1 .. n - d /\ d + (i - d) = i
      BY <1>1, <1>2
    <3> QED BY <2>1, <3>1, <3>2, <3>3
  <2>5. Len(text) = n BY DEF n
  <2>6. a \o b = text BY <2>1, <2>2, <2>3, <2>4, <2>5, SeqEqual
  <2> QED BY <2>6 DEF a, b
<1> QED BY <1>1, <1>2, <1>3, <1>4, <1>5 DEF Kept, d, n

\* What the buffer holds.
LEMMA BufferFacts ==
  ASSUME Printing, NEW b \in [Out!Cells -> Chars], NEW n \in 0 .. BufSize
  PROVE  /\ SubSeq(b, 1, n) \in Seq(Chars) /\ Len(SubSeq(b, 1, n)) = n
         /\ \A i \in 1 .. n : SubSeq(b, 1, n)[i] = b[i]
<1>1. 1 \in Int /\ n \in Int /\ \A i \in 1 .. n : b[i] \in Chars
  BY DEF Out!Cells, Printing
<1>2. /\ SubSeq(b, 1, n) \in Seq(Chars)
      /\ Len(SubSeq(b, 1, n)) = IF 1 <= n THEN n - 1 + 1 ELSE 0
      /\ \A i \in 1 .. n - 1 + 1 : SubSeq(b, 1, n)[i] = b[1 + i - 1]
  BY <1>1, SubSeqProperties
<1>3. n - 1 + 1 = n /\ \A i \in 1 .. n : 1 + i - 1 = i
  OBVIOUS
<1>4. Len(SubSeq(b, 1, n)) = n
  BY <1>2
<1> QED BY <1>2, <1>3, <1>4

\* What is written when its turn has come leaves the rest.
LEMMA WrittenInTurn ==
  ASSUME NEW s \in Streams, s.ordered, NEW t \in Seq(Chars), NEW rest \in Seq(Chars),
         s.pending = t \o rest
  PROVE  Out!Written(s, t) = [s EXCEPT !.pending = rest]
<1> DEFINE all == t \o rest
<1>1. /\ all \in Seq(Chars) /\ Len(all) = Len(t) + Len(rest) /\ Len(t) \in Nat /\ Len(rest) \in Nat
      /\ \A i \in 1 .. Len(t) + Len(rest) :
           all[i] = IF i <= Len(t) THEN t[i] ELSE rest[i - Len(t)]
      /\ \A i \in 1 .. Len(all) : all[i] \in Chars
  BY ConcatProperties, LenProperties, ElementOfSeq
<1> HIDE DEF all
<1>2. SubSeq(t, 1, Len(t)) = t
  BY SubSeqFull
<1>3. SubSeq(all, 1, Len(t)) = t
  <2>1. 1 \in Int /\ Len(t) \in Int /\ \A i \in 1 .. Len(t) : all[i] \in Chars
    BY <1>1
  <2>2. /\ SubSeq(all, 1, Len(t)) \in Seq(Chars)
        /\ Len(SubSeq(all, 1, Len(t))) = IF 1 <= Len(t) THEN Len(t) - 1 + 1 ELSE 0
        /\ \A i \in 1 .. Len(t) - 1 + 1 : SubSeq(all, 1, Len(t))[i] = all[1 + i - 1]
    BY <2>1, SubSeqProperties
  <2>3. Len(SubSeq(all, 1, Len(t))) = Len(t)
    BY <1>1, <2>2
  <2>4. \A i \in 1 .. Len(t) : SubSeq(all, 1, Len(t))[i] = t[i]
    BY <1>1, <2>2
  <2> QED BY <2>2, <2>3, <2>4, SeqEqual
<1>4. SubSeq(all, Len(t) + 1, Len(all)) = rest
  <2>1. /\ Len(t) + 1 \in Int /\ Len(all) \in Int
        /\ \A i \in Len(t) + 1 .. Len(all) : all[i] \in Chars
    BY <1>1
  <2> DEFINE u == SubSeq(all, Len(t) + 1, Len(all))
  <2>2. /\ u \in Seq(Chars)
        /\ Len(u) = IF Len(t) + 1 <= Len(all) THEN Len(all) - (Len(t) + 1) + 1 ELSE 0
        /\ \A i \in 1 .. Len(all) - (Len(t) + 1) + 1 : u[i] = all[Len(t) + 1 + i - 1]
    BY <2>1, SubSeqProperties
  <2> HIDE DEF u
  <2>3. Len(u) = Len(rest)
    BY <1>1, <2>2
  <2>4. ASSUME NEW i \in 1 .. Len(rest)
        PROVE  u[i] = rest[i]
    <3>1. /\ i \in 1 .. Len(all) - (Len(t) + 1) + 1 /\ Len(t) + 1 + i - 1 = Len(t) + i
          /\ Len(t) + i \in 1 .. Len(t) + Len(rest) /\ ~(Len(t) + i <= Len(t))
          /\ (Len(t) + i) - Len(t) = i
      BY <1>1
    <3>2. u[i] = all[Len(t) + i] BY <2>2, <3>1
    <3>3. all[Len(t) + i] = rest[(Len(t) + i) - Len(t)] BY <1>1, <3>1
    <3> QED BY <3>1, <3>2, <3>3
  <2>5. u = rest BY <2>2, <2>3, <2>4, SeqEqual
  <2> QED BY <2>5 DEF u
<1>5. Out!IsPrefix(t, s.pending)
  BY <1>1, <1>2, <1>3 DEF Out!IsPrefix, all
<1> QED BY <1>4, <1>5 DEF Out!Written, all

LEMMA Associates ==
  ASSUME NEW a \in Seq(Chars), NEW b \in Seq(Chars), NEW c \in Seq(Chars)
  PROVE  (a \o b) \o c = a \o (b \o c)
BY ConcatAssociative

LEMMA FlushedInTurn ==
  ASSUME Printing, NEW s, NEW rest \in Seq(Chars), InTurn(s, rest)
  PROVE  /\ Out!Flushed(s) = [s EXCEPT !.pending = rest] /\ Out!Flushed(s) \in Streams
         /\ Out!Emptied(Out!Flushed(s)) = [s EXCEPT !.pending = rest, !.idx = 0]
         /\ InTurn(Out!Emptied(Out!Flushed(s)), rest) /\ Out!Buffered(Out!Emptied(Out!Flushed(s))) = <<>>
<1>1. s \in Streams /\ s.ordered /\ s.pending = Out!Buffered(s) \o rest
  BY DEF InTurn
<1>2. s.buf \in [Out!Cells -> Chars] /\ s.idx \in 0 .. BufSize
  BY <1>1 DEF Streams
<1>3. Out!Buffered(s) \in Seq(Chars)
  BY <1>2, BufferFacts DEF Out!Buffered
<1>4. Out!Flushed(s) = [s EXCEPT !.pending = rest]
  BY <1>1, <1>3, WrittenInTurn DEF Out!Flushed
<1> DEFINE e == [s EXCEPT !.pending = rest, !.idx = 0]
<1>5. Out!Emptied(Out!Flushed(s)) = e
  BY <1>1, <1>4 DEF Out!Emptied, Streams
<1>6. e \in Streams /\ e.ordered /\ e.pending = rest /\ e.idx = 0 /\ e.buf = s.buf
  <2>1. 0 \in 0 .. BufSize BY DEF Printing
  <2> QED BY <1>1, <2>1 DEF Streams
<1> HIDE DEF e
<1>7. Out!Buffered(e) = <<>>
  <2>1. SubSeq(e.buf, 1, 0) = <<>> BY SubSeqEmpty
  <2> QED BY <1>6, <2>1 DEF Out!Buffered
<1>8. <<>> \o rest = rest
  BY ConcatEmptySeq
<1>9. Out!Flushed(s) \in Streams BY <1>1, <1>4 DEF Streams
<1> QED BY <1>4, <1>5, <1>6, <1>7, <1>8, <1>9 DEF InTurn, e

\* The copy: what goes past the buffer is written, and the rest lies behind what is buffered.
CopyDone(s, c, text, more) ==
  /\ c \in Streams /\ c.ordered /\ c.idx = s.idx /\ Out!Buffered(c) = Out!Buffered(s)
  /\ c.pending = Out!Buffered(c) \o (Kept(text) \o more)
  /\ \A i \in 1 .. Len(Kept(text)) : c.buf[c.idx + i] = Kept(text)[i]

LEMMA CopiedInTurn ==
  ASSUME Printing, NEW s, NEW text \in Seq(Chars), NEW more \in Seq(Chars),
         InTurn(s, text \o more), s.idx + Len(text) - Out!Direct(text) <= BufSize,
         Out!Direct(text) > 0 => s.idx = 0
  PROVE  CopyDone(s, Out!Copied(s, text), text, more)
<1> DEFINE d == Out!Direct(text)
           front == SubSeq(text, 1, d)
           keep == Kept(text)
<1>1. s \in Streams /\ s.ordered /\ s.pending = Out!Buffered(s) \o (text \o more)
  BY DEF InTurn
<1>2. s.buf \in [Out!Cells -> Chars] /\ s.idx \in 0 .. BufSize /\ s.pending \in Seq(Chars)
  BY <1>1 DEF Streams
<1>3. /\ d \in 0 .. Len(text) /\ keep \in Seq(Chars) /\ Len(keep) = Len(text) - d
      /\ front \in Seq(Chars) /\ front \o keep = text /\ Len(keep) \in Nat /\ Len(text) \in Nat
      /\ \A i \in 1 .. Len(keep) : keep[i] = text[d + i] /\ keep[i] \in Chars
      /\ keep = SubSeq(text, d + 1, Len(text))
  BY KeptFacts, LenProperties, ElementOfSeq DEF Kept
<1>4. /\ SubSeq(s.buf, 1, s.idx) \in Seq(Chars) /\ Len(SubSeq(s.buf, 1, s.idx)) = s.idx
      /\ \A i \in 1 .. s.idx : SubSeq(s.buf, 1, s.idx)[i] = s.buf[i]
  BY <1>2, BufferFacts
<1> DEFINE t == Out!Written(s, front)
<1>a. d > 0 => s.idx = 0 OBVIOUS
<1>b. s.idx + Len(text) - d <= BufSize OBVIOUS
<1>c. keep \o more \in Seq(Chars) BY <1>3, ConcatProperties
<1> HIDE DEF d, front, keep
<1>d. s.idx \in 0 .. BufSize /\ Len(keep) \in Nat /\ s.idx + Len(keep) <= BufSize
  BY <1>2, <1>3, <1>b
<1>5. t = [s EXCEPT !.pending = Out!Buffered(s) \o (keep \o more)]
  <2>1. CASE d = 0
    <3>1. front = <<>> BY <2>1, SubSeqEmpty DEF front
    <3>2. keep = text BY <1>3, <3>1, ConcatEmptySeq
    <3>3. s.pending = front \o s.pending BY <1>2, <3>1, ConcatEmptySeq
    <3>4. t = [s EXCEPT !.pending = s.pending] BY <1>1, <1>2, <1>3, <3>3, WrittenInTurn
    <3> QED BY <1>1, <3>2, <3>4
  <2>2. CASE d # 0
    <3>1. s.idx = 0 BY <1>3, <1>a, <2>2
    <3>2. Out!Buffered(s) = <<>> BY <3>1, SubSeqEmpty DEF Out!Buffered
    <3>3. text \o more = front \o (keep \o more) BY <1>3, Associates
    <3>4. text \o more \in Seq(Chars) BY ConcatProperties
    <3>5. s.pending = front \o (keep \o more) BY <1>1, <3>2, <3>3, <3>4, ConcatEmptySeq
    <3>6. t = [s EXCEPT !.pending = keep \o more] BY <1>1, <1>3, <1>c, <3>5, WrittenInTurn
    <3>7. Out!Buffered(s) \o (keep \o more) = keep \o more BY <1>c, <3>2, ConcatEmptySeq
    <3> QED BY <3>6, <3>7
  <2> QED BY <2>1, <2>2
<1> DEFINE c == Out!Copied(s, text)
           b == Out!Placed(s.buf, s.idx, keep)
           p == Out!Buffered(s) \o (keep \o more)
<1>6. c = [s EXCEPT !.pending = p, !.buf = b]
  <2>1. c = [t EXCEPT !.buf = Out!Placed(@, s.idx, keep)]
    BY <1>3 DEF Out!Copied, d, front
  <2>2. t.buf = s.buf BY <1>1, <1>5 DEF Streams
  <2> QED BY <1>1, <1>5, <2>1, <2>2 DEF Streams
<1>7. b \in [Out!Cells -> Chars]
  <2> SUFFICES ASSUME NEW i \in Out!Cells, i \in s.idx + 1 .. s.idx + Len(keep)
               PROVE  keep[i - s.idx] \in Chars
    BY <1>2 DEF Out!Placed
  <2>1. i - s.idx \in 1 .. Len(keep) BY <1>d
  <2> QED BY <1>3, <2>1
<1>8. \A i \in 1 .. s.idx : b[i] = s.buf[i]
  <2> SUFFICES ASSUME NEW i \in 1 .. s.idx
               PROVE  b[i] = s.buf[i]
    OBVIOUS
  <2>1. i \in Out!Cells /\ ~(i \in s.idx + 1 .. s.idx + Len(keep)) BY <1>2, <1>3 DEF Out!Cells, Printing
  <2> QED BY <2>1 DEF Out!Placed
<1>9. \A i \in 1 .. Len(keep) : b[s.idx + i] = keep[i]
  <2> SUFFICES ASSUME NEW i \in 1 .. Len(keep)
               PROVE  b[s.idx + i] = keep[i]
    OBVIOUS
  <2>1. /\ s.idx + i \in Out!Cells /\ s.idx + i \in s.idx + 1 .. s.idx + Len(keep)
        /\ (s.idx + i) - s.idx = i
    BY <1>d DEF Out!Cells, Printing
  <2> QED BY <2>1 DEF Out!Placed
<1> HIDE DEF b
<1>10. /\ SubSeq(b, 1, s.idx) \in Seq(Chars) /\ Len(SubSeq(b, 1, s.idx)) = s.idx
       /\ \A i \in 1 .. s.idx : SubSeq(b, 1, s.idx)[i] = b[i]
  BY <1>2, <1>7, BufferFacts
<1>11. SubSeq(b, 1, s.idx) = SubSeq(s.buf, 1, s.idx)
  <2>1. \A i \in 1 .. s.idx : SubSeq(b, 1, s.idx)[i] = SubSeq(s.buf, 1, s.idx)[i]
    BY <1>4, <1>8, <1>10
  <2> QED BY <1>4, <1>10, <2>1, SeqEqual
<1>12. p \in Seq(Chars) BY <1>4, <1>c, ConcatProperties DEF Out!Buffered
<1> HIDE DEF p, c
<1>13. c \in Streams /\ c.ordered /\ c.idx = s.idx /\ c.buf = b /\ c.pending = p
  BY <1>1, <1>6, <1>7, <1>12 DEF Streams
<1>14. Out!Buffered(c) = Out!Buffered(s) BY <1>11, <1>13 DEF Out!Buffered
<1> QED BY <1>9, <1>13, <1>14 DEF CopyDone, c, p, keep

\* Then the index passes what has been copied.
LEMMA CountedInTurn ==
  ASSUME Printing, NEW s, NEW text \in Seq(Chars), NEW more \in Seq(Chars), CopyDone(s, s, text, more),
         s.idx + Len(text) - Out!Direct(text) <= BufSize
  PROVE  /\ InTurn(Out!Counted(s, text), more)
         /\ Out!Buffered(Out!Counted(s, text)) = Out!Buffered(s) \o Kept(text)
<1> DEFINE c == Out!Counted(s, text)
           keep == Kept(text)
           n == s.idx + Len(keep)
<1>1. /\ s \in Streams /\ s.ordered /\ s.pending = Out!Buffered(s) \o (keep \o more)
      /\ \A i \in 1 .. Len(keep) : s.buf[s.idx + i] = keep[i]
  BY DEF CopyDone
<1>2. s.buf \in [Out!Cells -> Chars] /\ s.idx \in 0 .. BufSize
  BY <1>1 DEF Streams
<1>3. /\ Out!Direct(text) \in Nat /\ keep \in Seq(Chars) /\ Len(keep) = Len(text) - Out!Direct(text)
      /\ Len(keep) \in Nat /\ Len(text) \in Nat
  BY KeptFacts, LenProperties
<1>4. c = [s EXCEPT !.idx = s.idx + Len(text) - Out!Direct(text)]
  BY <1>1 DEF Out!Counted, Streams
<1>5. n \in 0 .. BufSize /\ s.idx + Len(text) - Out!Direct(text) = n
  BY <1>2, <1>3
<1> HIDE DEF c, keep, n
<1>6. c \in Streams /\ c.ordered /\ c.idx = n /\ c.buf = s.buf /\ c.pending = s.pending
  BY <1>1, <1>4, <1>5 DEF Streams
<1> DEFINE old == SubSeq(s.buf, 1, s.idx)
           new == SubSeq(s.buf, 1, n)
<1>7. /\ old \in Seq(Chars) /\ Len(old) = s.idx /\ \A i \in 1 .. s.idx : old[i] = s.buf[i]
      /\ new \in Seq(Chars) /\ Len(new) = n /\ \A i \in 1 .. n : new[i] = s.buf[i]
  BY <1>2, <1>5, BufferFacts
<1> HIDE DEF old, new
<1>8. new = old \o keep
  <2>1. /\ old \o keep \in Seq(Chars) /\ Len(old \o keep) = n
        /\ \A i \in 1 .. n : (old \o keep)[i] = IF i <= s.idx THEN old[i] ELSE keep[i - s.idx]
    <3>1. /\ old \o keep \in Seq(Chars) /\ Len(old \o keep) = Len(old) + Len(keep)
          /\ \A i \in 1 .. Len(old) + Len(keep) :
               (old \o keep)[i] = IF i <= Len(old) THEN old[i] ELSE keep[i - Len(old)]
      BY <1>3, <1>7, ConcatProperties
    <3>2. Len(old) = s.idx BY <1>7
    <3> QED BY <3>1, <3>2 DEF n
  <2>2. ASSUME NEW i \in 1 .. n
        PROVE  new[i] = (old \o keep)[i]
    <3>1. i <= s.idx => i \in 1 .. s.idx BY <1>2
    <3>2. ~(i <= s.idx) => i - s.idx \in 1 .. Len(keep) /\ s.idx + (i - s.idx) = i
      BY <1>2, <1>3 DEF n
    <3> QED BY <1>1, <1>7, <2>1, <3>1, <3>2
  <2> QED BY <1>7, <2>1, <2>2, SeqEqual
<1>9. Out!Buffered(s) = old /\ Out!Buffered(c) = new
  BY <1>6 DEF Out!Buffered, old, new
<1>10. (old \o keep) \o more = old \o (keep \o more)
  BY <1>3, <1>7, Associates
<1> QED BY <1>1, <1>6, <1>8, <1>9, <1>10 DEF InTurn, c, keep

\* Not a newline, before nor behind.
LEMMA NoLineAdded ==
  ASSUME NEW a \in Seq(Chars), NEW b \in Seq(Chars), ~Out!HasLine(a), ~Out!HasLine(b)
  PROVE  ~Out!HasLine(a \o b)
<1>1. /\ a \o b \in Seq(Chars) /\ Len(a \o b) = Len(a) + Len(b) /\ Len(a) \in Nat /\ Len(b) \in Nat
      /\ \A i \in 1 .. Len(a) + Len(b) : (a \o b)[i] = IF i <= Len(a) THEN a[i] ELSE b[i - Len(a)]
  BY ConcatProperties, LenProperties
<1>2. DOMAIN a = 1 .. Len(a) /\ DOMAIN b = 1 .. Len(b) /\ DOMAIN (a \o b) = 1 .. Len(a) + Len(b)
  BY <1>1, LenProperties
<1>3. ASSUME NEW i \in 1 .. Len(a) + Len(b)
      PROVE  (a \o b)[i] # LineEnd
  <2>1. i <= Len(a) => i \in 1 .. Len(a) BY <1>1
  <2>2. ~(i <= Len(a)) => i - Len(a) \in 1 .. Len(b) BY <1>1
  <2> QED BY <1>1, <1>2, <2>1, <2>2 DEF Out!HasLine
<1> QED BY <1>2, <1>3 DEF Out!HasLine

LEMMA KeptHasNoLine ==
  ASSUME Printing, NEW text \in Seq(Chars), ~Out!HasLine(text)
  PROVE  ~Out!HasLine(Kept(text))
<1>1. /\ Out!Direct(text) \in 0 .. Len(text) /\ Kept(text) \in Seq(Chars)
      /\ Len(Kept(text)) = Len(text) - Out!Direct(text) /\ Len(text) \in Nat
      /\ \A i \in 1 .. Len(Kept(text)) : Kept(text)[i] = text[Out!Direct(text) + i]
  BY KeptFacts, LenProperties
<1>2. DOMAIN text = 1 .. Len(text) /\ DOMAIN Kept(text) = 1 .. Len(Kept(text))
  BY <1>1, LenProperties
<1>3. \A i \in 1 .. Len(Kept(text)) : Out!Direct(text) + i \in 1 .. Len(text)
  BY <1>1
<1> QED BY <1>1, <1>2, <1>3 DEF Out!HasLine

\* With room, or with the buffer emptied, a text fits.
LEMMA RoomFits ==
  ASSUME Printing, NEW text \in Seq(Chars), NEW s, s.idx \in 0 .. BufSize
  PROVE  /\ ~Out!NoRoom(s, text) =>
              Out!Direct(text) = 0 /\ s.idx + Len(text) - Out!Direct(text) <= BufSize
         /\ Len(text) - Out!Direct(text) \in 0 .. BufSize /\ Len(text) \in Nat
         /\ Out!Direct(text) \in 0 .. Len(text)
<1>1. Len(text) \in Nat BY LenProperties
<1>2. BufSize - s.idx \in 0 .. Word - 1 BY DEF Printing
<1>3. (BufSize - s.idx) % Word = BufSize - s.idx
  <2>1. \A n \in Nat : n < Word => n % Word = n BY DEF Printing
  <2>2. BufSize - s.idx \in Nat /\ BufSize - s.idx < Word BY <1>2 DEF Printing
  <2> QED BY <2>1, <2>2
<1>4. ~Out!NoRoom(s, text) => Len(text) < BufSize - s.idx
  BY <1>1, <1>2, <1>3 DEF Out!NoRoom, Printing
<1> QED BY <1>1, <1>4 DEF Out!Direct, Printing

\* A whole fwrite keeps the turns, and leaves no end of a line behind.
LEMMA FwriteInTurn ==
  ASSUME Printing, NEW s, NEW text \in Seq(Chars), NEW more \in Seq(Chars),
         InTurn(s, text \o more), ~Out!HasLine(Out!Buffered(s))
  PROVE  InTurn(Out!fwrite(s, text), more) /\ ~Out!HasLine(Out!Buffered(Out!fwrite(s, text)))
<1> DEFINE r == IF Out!NoRoom(s, text) THEN Out!Emptied(Out!Flushed(s)) ELSE s
           k == Out!Copied(r, text)
           c == Out!Counted(k, text)
<1>1. text \o more \in Seq(Chars) /\ s.idx \in 0 .. BufSize
  BY ConcatProperties DEF InTurn, Streams
<1>2. ~Out!HasLine(<<>>) BY DEF Out!HasLine
<1>3. /\ InTurn(r, text \o more) /\ ~Out!HasLine(Out!Buffered(r))
      /\ r.idx + Len(text) - Out!Direct(text) <= BufSize /\ (Out!Direct(text) > 0 => r.idx = 0)
  <2>1. CASE Out!NoRoom(s, text)
    <3>1. /\ r = [s EXCEPT !.pending = text \o more, !.idx = 0]
          /\ InTurn(r, text \o more) /\ Out!Buffered(r) = <<>>
      BY <1>1, <2>1, FlushedInTurn
    <3>2. r.idx = 0 BY <3>1 DEF InTurn, Streams
    <3> QED BY <1>1, <1>2, <3>1, <3>2, RoomFits
  <2>2. CASE ~Out!NoRoom(s, text) BY <1>1, <2>2, RoomFits
  <2> QED BY <2>1, <2>2
<1>4. Out!fwrite(s, text) = IF Out!HasLine(text) THEN Out!Emptied(Out!Flushed(c)) ELSE c
  BY DEF Out!fwrite
<1> HIDE DEF r
<1>5. CopyDone(r, k, text, more) BY <1>3, CopiedInTurn
<1>6. CopyDone(k, k, text, more) /\ k.idx = r.idx /\ Out!Buffered(k) = Out!Buffered(r)
  BY <1>5 DEF CopyDone
<1> HIDE DEF k
<1>7. InTurn(c, more) /\ Out!Buffered(c) = Out!Buffered(r) \o Kept(text)
  BY <1>3, <1>6, CountedInTurn
<1> HIDE DEF c
<1>8. CASE Out!HasLine(text)
  <2>1. InTurn(Out!Emptied(Out!Flushed(c)), more) /\ Out!Buffered(Out!Emptied(Out!Flushed(c))) = <<>>
    BY <1>7, FlushedInTurn
  <2> QED BY <1>2, <1>4, <1>8, <2>1
<1>9. CASE ~Out!HasLine(text)
  <2>1. ~Out!HasLine(Kept(text)) /\ Kept(text) \in Seq(Chars) BY <1>9, KeptHasNoLine, KeptFacts
  <2>2. Out!Buffered(r) \in Seq(Chars) BY <1>3, BufferFacts DEF InTurn, Streams, Out!Buffered
  <2>3. ~Out!HasLine(Out!Buffered(c)) BY <1>3, <1>7, <2>1, <2>2, NoLineAdded
  <2> QED BY <1>4, <1>7, <1>9, <2>3
<1> QED BY <1>8, <1>9

\* What each step does to the index.
IsStream(s) == s = Out!Stream(s.buf, s.idx, s.pending, s.ordered)

LEMMA Indexes ==
  ASSUME NEW s, IsStream(s), NEW text
  PROVE  /\ IsStream(Out!Asked(s, text)) /\ Out!Asked(s, text).idx = s.idx
         /\ IsStream(Out!Written(s, text)) /\ Out!Written(s, text).idx = s.idx
         /\ IsStream(Out!Flushed(s)) /\ Out!Flushed(s).idx = s.idx
         /\ IsStream(Out!Emptied(s)) /\ Out!Emptied(s).idx = 0
         /\ IsStream(Out!Copied(s, text)) /\ Out!Copied(s, text).idx = s.idx
         /\ IsStream(Out!Counted(s, text))
         /\ Out!Counted(s, text).idx = s.idx + Len(text) - Out!Direct(text)
<1>1. \A t : IsStream(Out!Written(s, t)) /\ Out!Written(s, t).idx = s.idx
  BY DEF IsStream, Out!Written, Out!Stream
<1>2. IsStream(Out!Emptied(s)) /\ Out!Emptied(s).idx = 0
  BY DEF IsStream, Out!Emptied, Out!Stream
<1>3. IsStream(Out!Flushed(s)) /\ Out!Flushed(s).idx = s.idx
  BY <1>1 DEF Out!Flushed
<1>4. IsStream(Out!Copied(s, text)) /\ Out!Copied(s, text).idx = s.idx
  <2> DEFINE t == Out!Written(s, SubSeq(text, 1, Out!Direct(text)))
  <2>1. IsStream(t) /\ t.idx = s.idx BY <1>1
  <2>2. Out!Copied(s, text) =
          [t EXCEPT !.buf = Out!Placed(@, s.idx, SubSeq(text, Out!Direct(text) + 1, Len(text)))]
    BY DEF Out!Copied
  <2> HIDE DEF t
  <2> QED BY <2>1, <2>2 DEF IsStream, Out!Stream
<1>5. IsStream(Out!Counted(s, text)) /\ Out!Counted(s, text).idx = s.idx + Len(text) - Out!Direct(text)
  BY DEF IsStream, Out!Counted, Out!Stream
<1>6. IsStream(Out!Asked(s, text)) /\ Out!Asked(s, text).idx = s.idx
  BY DEF IsStream, Out!Asked, Out!Stream
<1> QED BY <1>1, <1>2, <1>3, <1>4, <1>5, <1>6

\* How far a whole fwrite fills the buffer, whatever is in it.
LEMMA FwriteFills ==
  ASSUME Printing, NEW s, IsStream(s), s.idx \in 0 .. BufSize, NEW text \in Seq(Chars)
  PROVE  /\ IsStream(Out!fwrite(s, text)) /\ Out!fwrite(s, text).idx \in 0 .. BufSize
         /\ Out!HasLine(text) => Out!fwrite(s, text).idx = 0
         /\ s.idx = 0 => Out!fwrite(s, text).idx <= Len(text)
<1> DEFINE r == IF Out!NoRoom(s, text) THEN Out!Emptied(Out!Flushed(s)) ELSE s
           k == Out!Copied(r, text)
           c == Out!Counted(k, text)
<1>1. Out!fwrite(s, text) = IF Out!HasLine(text) THEN Out!Emptied(Out!Flushed(c)) ELSE c
  BY DEF Out!fwrite
<1>2. IsStream(r) /\ (Out!NoRoom(s, text) => r.idx = 0) /\ (~Out!NoRoom(s, text) => r = s)
  BY Indexes
<1> HIDE DEF r
<1>3. IsStream(c) /\ c.idx = r.idx + Len(text) - Out!Direct(text)
  <2>1. IsStream(k) /\ k.idx = r.idx BY <1>2, Indexes
  <2> HIDE DEF k
  <2>2. /\ IsStream(Out!Counted(k, text))
        /\ Out!Counted(k, text).idx = k.idx + Len(text) - Out!Direct(text)
    BY <2>1, Indexes
  <2> QED BY <2>1, <2>2
<1> HIDE DEF c, k
<1>4. c.idx \in 0 .. BufSize /\ (s.idx = 0 => c.idx <= Len(text))
  <2>1. /\ r.idx \in 0 .. BufSize /\ (s.idx = 0 => r.idx = 0)
        /\ r.idx + Len(text) - Out!Direct(text) <= BufSize
    BY <1>2, RoomFits DEF Printing
  <2>2. /\ Len(text) - Out!Direct(text) \in 0 .. BufSize /\ Len(text) \in Nat
        /\ Out!Direct(text) \in 0 .. Len(text)
    BY RoomFits
  <2> QED BY <1>3, <2>1, <2>2
<1>5. IsStream(Out!Emptied(Out!Flushed(c))) /\ Out!Emptied(Out!Flushed(c)).idx = 0 BY <1>3, Indexes
<1>6. Len(text) \in Nat BY LenProperties
<1> QED BY <1>1, <1>3, <1>4, <1>5, <1>6 DEF Printing

-----------------------------------------------------------------------------
(* The invariant *)

Copying == pc \in {"copy", "count"}

\* The text being printed has room behind what is in the buffer, wherever a handler has struck.
Filled ==
  /\ msg \in Seq(Chars) /\ struck \in {"no", "short", "long"}
  /\ struck # "long" => /\ buf_idx \in 0 .. BufSize
                        /\ Copying => buf_idx + Len(msg) - Out!Direct(msg) <= BufSize

\* What is left to write at each step of a call.
Turn(s, step, text) ==
  /\ s \in Streams /\ s.ordered
  /\ \/ step = "idle" /\ InTurn(s, <<>>) /\ ~Out!HasLine(Out!Buffered(s))
     \/ step = "room" /\ InTurn(s, text) /\ ~Out!HasLine(Out!Buffered(s))
     \/ step = "reset" /\ s.pending = text
     \/ step = "copy" /\ InTurn(s, text) /\ ~Out!HasLine(Out!Buffered(s))
        /\ (Out!Direct(text) > 0 => s.idx = 0)
     \/ step = "count" /\ CopyDone(s, s, text, <<>>) /\ ~Out!HasLine(Out!Buffered(s))
     \/ step = "line" /\ InTurn(s, <<>>)
     \/ step = "emptied" /\ s.pending = <<>>

Turns == struck = "no" => Turn(Out!Now, pc, msg)

LEMMA NowFacts ==
  /\ IsStream(Out!Now) /\ Out!Now.buf = out /\ Out!Now.idx = buf_idx
  /\ Out!Now.pending = pending /\ Out!Now.ordered = ordered
  /\ \A s : Out!Becomes(s) /\ IsStream(s) => Out!Now' = s
BY DEF Out!Now, Out!Stream, Out!Becomes, IsStream

LEMMA InitStream == ASSUME Printing PROVE Out!Init => Filled /\ Turns
<1> SUFFICES ASSUME Out!Init
             PROVE  Filled /\ Turns
  OBVIOUS
<1>1. <<>> \in Seq(Chars) /\ 0 \in 0 .. BufSize BY EmptySeq DEF Printing
<1>2. LineEnd \in Chars BY DEF Chars
<1>3. Out!Now \in Streams BY <1>1, <1>2 DEF Out!Init, Out!Now, Out!Stream, Streams
<1>4. Out!Buffered(Out!Now) = <<>>
  <2>1. SubSeq(out, 1, 0) = <<>> BY SubSeqEmpty
  <2> QED BY <2>1, NowFacts DEF Out!Buffered, Out!Init
<1>5. Out!Now.pending = <<>> \o <<>> BY <1>1, NowFacts, ConcatEmptySeq DEF Out!Init
<1>6. ~Out!HasLine(<<>>) BY DEF Out!HasLine
<1> QED BY <1>1, <1>3, <1>4, <1>5, <1>6, NowFacts DEF Out!Init, Filled, Turns, Turn, InTurn, Copying

\* The index.
LEMMA FilledStep == ASSUME Printing, Filled, [Out!Next]_(Out!vars) PROVE Filled'
<1>1. msg \in Seq(Chars) /\ struck \in {"no", "short", "long"} BY DEF Filled
<1>2. /\ Len(msg) - Out!Direct(msg) \in 0 .. BufSize /\ Len(msg) \in Nat
      /\ Out!Direct(msg) \in 0 .. Len(msg)
  BY <1>1, KeptFacts, LenProperties
<1>3. ASSUME NEW text \in Messages, Out!print(text)
      PROVE  Filled'
  <2>1. text \in Seq(Chars) BY DEF Printing
  <2>2. buf_idx' = buf_idx BY <1>3, Indexes, NowFacts DEF Out!print, Out!Becomes
  <2> QED BY <1>3, <2>1, <2>2 DEF Out!print, Filled, Copying
<1>4. CASE Out!fflush \/ Out!WriteLine
  <2>1. buf_idx' = buf_idx BY <1>4, Indexes, NowFacts DEF Out!fflush, Out!WriteLine, Out!Go, Out!Becomes
  <2> QED BY <1>4, <2>1 DEF Out!fflush, Out!WriteLine, Out!Go, Filled, Copying
<1>5. CASE Out!Empty \/ Out!Reset
  <2>1. buf_idx' = 0 BY <1>5, Indexes, NowFacts DEF Out!Empty, Out!Reset, Out!Go, Out!Becomes
  <2>2. 0 \in 0 .. BufSize /\ 0 + Len(msg) - Out!Direct(msg) <= BufSize BY <1>2 DEF Printing
  <2> QED BY <1>1, <1>5, <2>1, <2>2 DEF Out!Empty, Out!Reset, Out!Go, Filled, Copying
<1>6. CASE Out!Room
  <2>1. CASE Out!NoRoom(Out!Now, msg) /\ Out!Go("room", "reset", Out!Flushed(Out!Now))
    <3>1. buf_idx' = buf_idx BY <2>1, Indexes, NowFacts DEF Out!Go, Out!Becomes
    <3> QED BY <2>1, <3>1 DEF Out!Go, Filled, Copying
  <2>2. CASE ~Out!NoRoom(Out!Now, msg) /\ Out!Go("room", "copy", Out!Now)
    <3>1. buf_idx' = buf_idx BY <2>2, NowFacts DEF Out!Go, Out!Becomes
    <3>2. buf_idx \in 0 .. BufSize => buf_idx + Len(msg) - Out!Direct(msg) <= BufSize
      BY <1>1, <2>2, NowFacts, RoomFits
    <3> QED BY <2>2, <3>1, <3>2 DEF Out!Go, Filled, Copying
  <2> QED BY <1>6, <2>1, <2>2 DEF Out!Room
<1>7. CASE Out!Copy
  <2>1. buf_idx' = buf_idx BY <1>7, Indexes, NowFacts DEF Out!Copy, Out!Go, Out!Becomes
  <2> QED BY <1>7, <2>1 DEF Out!Copy, Out!Go, Filled, Copying
<1>8. CASE Out!Count
  <2>1. /\ buf_idx' = buf_idx + Len(msg) - Out!Direct(msg)
        /\ pc = "count" /\ pc' \in {"line", "idle"} /\ msg' = msg /\ struck' = struck
    BY <1>8, Indexes, NowFacts DEF Out!Count, Out!Go, Out!Becomes
  <2>2. struck # "long" => buf_idx' \in 0 .. BufSize
    <3>1. struck # "long" => buf_idx \in 0 .. BufSize /\ buf_idx + Len(msg) - Out!Direct(msg) <= BufSize
      BY <2>1 DEF Filled, Copying
    <3> QED BY <1>2, <2>1, <3>1
  <2> QED BY <1>1, <2>1, <2>2 DEF Filled, Copying
<1>9. CASE struck = "no" /\ Out!handler
  <2>1. PICK text \in {<<>>, Prompt} :
          LET s == Out!fwrite(Out!Asked(Out!Now, Line \o text), Line) IN
            Out!Becomes(IF text = <<>> THEN s ELSE Out!fwrite(s, text))
    BY <1>9 DEF Out!handler
  <2> DEFINE s == Out!fwrite(Out!Asked(Out!Now, Line \o text), Line)
             t == IF text = <<>> THEN s ELSE Out!fwrite(s, text)
  <2>2. Line \in Seq(Chars) /\ Prompt \in Seq(Chars) /\ Out!HasLine(Line) BY DEF Printing
  <2>3. buf_idx \in 0 .. BufSize BY <1>9 DEF Filled
  <2>4. /\ IsStream(Out!Asked(Out!Now, Line \o text))
        /\ Out!Asked(Out!Now, Line \o text).idx \in 0 .. BufSize
    BY <2>3, Indexes, NowFacts
  <2>5. IsStream(s) /\ s.idx = 0 BY <2>2, <2>4, FwriteFills
  <2>6. Len(Prompt) \in Nat BY <2>2, LenProperties
  <2> HIDE DEF s
  <2>7. t.idx \in 0 .. BufSize /\ t.idx <= Len(Prompt)
    <3>1. CASE text = <<>> BY <2>5, <2>6, <3>1 DEF Printing
    <3>2. CASE text # <<>>
      <4>1. t = Out!fwrite(s, Prompt) BY <2>1, <3>2
      <4>2. s.idx \in 0 .. BufSize BY <2>5 DEF Printing
      <4> QED BY <2>2, <2>5, <4>1, <4>2, FwriteFills
    <3> QED BY <3>1, <3>2
  <2>8. buf_idx' \in 0 .. BufSize /\ buf_idx' <= Len(Prompt) BY <2>1, <2>7 DEF Out!Becomes, s
  <2> HIDE DEF t
  <2>9. /\ pc' = pc /\ msg' = msg /\ struck' \in {"no", "short", "long"}
        /\ struck' # "long" => pc = "idle" \/ Len(Prompt) + Len(msg) <= BufSize
    BY <1>9 DEF Out!handler
  <2>10. struck' # "long" /\ pc # "idle" => buf_idx' + Len(msg) - Out!Direct(msg) <= BufSize
    <3>1. BufSize \in Nat /\ buf_idx' \in Int BY <2>8 DEF Printing
    <3> QED BY <1>2, <2>6, <2>8, <2>9, <3>1
  <2> QED BY <1>1, <2>8, <2>9, <2>10 DEF Filled, Copying
<1>10. CASE UNCHANGED Out!vars BY <1>10 DEF Out!vars, Filled, Copying
<1> QED BY <1>3, <1>4, <1>5, <1>6, <1>7, <1>8, <1>9, <1>10 DEF Out!Next

\* A handler that prints inside a call of fwrite can make it write past the buffer only if the
\* handler's prompt and the text do not fit into it together: whatever the sizes.
THEOREM StaysInBuffer == Out!Spec => []Out!BufferHolds
<1> USE PrintingAssumption
<1>1. Out!Init => Filled BY InitStream
<1>2. Filled /\ [Out!Next]_(Out!vars) => Filled' BY FilledStep
<1>3. Filled => Out!BufferHolds BY DEF Filled, Out!BufferHolds, Printing
<1> QED BY <1>1, <1>2, <1>3, PTL DEF Out!Spec

\* What is written, and what is left.
LEMMA Continues ==
  ASSUME NEW s, s \in Streams, Out!Becomes(s), Turn(s, pc', msg')
  PROVE  Turns'
<1>1. Out!Now' = s
  BY DEF Streams, Out!Becomes, Out!Now, Out!Stream
<1>2. Turn(Out!Now', pc', msg') BY <1>1
<1> QED BY <1>2 DEF Turns, Turn, InTurn, CopyDone, Out!Buffered, Out!HasLine

LEMMA TurnsStep == ASSUME Printing, Filled, Turns, [Out!Next]_(Out!vars) PROVE Turns'
<1> SUFFICES ASSUME struck' = "no"
             PROVE  Turns'
  BY DEF Turns
<1>0. struck = "no"
  BY DEF Out!Next, Out!print, Out!fflush, Out!Room, Out!Reset, Out!Copy, Out!Count, Out!WriteLine,
         Out!Empty, Out!Go, Out!handler, Out!vars
<1>1. Turn(Out!Now, pc, msg) /\ Out!Now \in Streams /\ Out!Now.ordered
  BY <1>0 DEF Turns, Turn
<1>2. /\ msg \in Seq(Chars) /\ Out!Now.idx \in 0 .. BufSize
      /\ Copying => Out!Now.idx + Len(msg) - Out!Direct(msg) <= BufSize
  BY <1>0, NowFacts DEF Filled
<1>3. <<>> \in Seq(Chars) /\ ~Out!HasLine(<<>>) BY EmptySeq DEF Out!HasLine
<1>4. Out!Buffered(Out!Now) \in Seq(Chars)
  BY <1>1, BufferFacts DEF Streams, Out!Buffered
<1>5. ASSUME NEW text \in Messages, Out!print(text)
      PROVE  Turns'
  <2>1. text \in Seq(Chars) BY DEF Printing
  <2> DEFINE s == Out!Asked(Out!Now, text)
  <2>2. /\ Out!Now.pending = Out!Buffered(Out!Now) \o <<>>
        /\ ~Out!HasLine(Out!Buffered(Out!Now)) /\ pc = "idle"
    BY <1>1, <1>5 DEF Out!print, Turn, InTurn
  <2>3. Out!Now.pending \o text = Out!Buffered(Out!Now) \o text BY <1>3, <1>4, <2>2, ConcatEmptySeq
  <2>4. s = [Out!Now EXCEPT !.pending = Out!Buffered(Out!Now) \o text] BY <1>1, <2>3 DEF Out!Asked
  <2>5. Out!Buffered(Out!Now) \o text \in Seq(Chars) BY <1>4, <2>1, ConcatProperties
  <2>6. Out!Becomes(s) /\ pc' = "room" /\ msg' = text BY <1>5 DEF Out!print
  <2> HIDE DEF s
  <2>7. /\ s \in Streams /\ s.ordered /\ s.buf = Out!Now.buf /\ s.idx = Out!Now.idx
        /\ s.pending = Out!Buffered(Out!Now) \o text
    BY <1>1, <2>4, <2>5 DEF Streams
  <2>8. Out!Buffered(s) = Out!Buffered(Out!Now) BY <2>7 DEF Out!Buffered
  <2>9. Turn(s, "room", text) BY <2>2, <2>7, <2>8 DEF Turn, InTurn
  <2> QED BY <2>6, <2>7, <2>9, Continues
<1>6. CASE Out!fflush \/ Out!WriteLine
  <2>1. /\ Out!Becomes(Out!Flushed(Out!Now)) /\ InTurn(Out!Now, <<>>) /\ pc' = "emptied"
    BY <1>1, <1>6 DEF Out!fflush, Out!WriteLine, Out!Go, Turn
  <2>2. Out!Flushed(Out!Now) = [Out!Now EXCEPT !.pending = <<>>] /\ Out!Flushed(Out!Now) \in Streams
    BY <1>3, <2>1, FlushedInTurn
  <2>3. Turn(Out!Flushed(Out!Now), "emptied", msg')
    BY <1>1, <2>2 DEF Turn, Streams
  <2> QED BY <2>1, <2>2, <2>3, Continues
<1>7. CASE Out!Room
  <2>1. pc = "room" /\ msg' = msg /\ InTurn(Out!Now, msg) /\ ~Out!HasLine(Out!Buffered(Out!Now))
    BY <1>1, <1>7 DEF Out!Room, Out!Go, Turn
  <2>2. CASE Out!NoRoom(Out!Now, msg) /\ Out!Go("room", "reset", Out!Flushed(Out!Now))
    <3>1. Out!Flushed(Out!Now) = [Out!Now EXCEPT !.pending = msg] /\ Out!Flushed(Out!Now) \in Streams
      BY <1>2, <2>1, FlushedInTurn
    <3>2. Turn(Out!Flushed(Out!Now), "reset", msg) BY <1>1, <3>1 DEF Turn, Streams
    <3> QED BY <2>1, <2>2, <3>1, <3>2, Continues DEF Out!Go
  <2>3. CASE ~Out!NoRoom(Out!Now, msg) /\ Out!Go("room", "copy", Out!Now)
    <3>1. Out!Direct(msg) = 0 BY <1>2, <2>3, RoomFits
    <3>2. Turn(Out!Now, "copy", msg) BY <1>1, <2>1, <3>1 DEF Turn
    <3> QED BY <1>1, <2>1, <2>3, <3>2, Continues DEF Out!Go
  <2> QED BY <1>7, <2>2, <2>3 DEF Out!Room
<1>8. CASE Out!Reset \/ Out!Empty
  <2> DEFINE e == Out!Emptied(Out!Now)
  <2>1. e = [Out!Now EXCEPT !.idx = 0] BY DEF Out!Emptied
  <2>2. 0 \in 0 .. BufSize BY DEF Printing
  <2>3. /\ e \in Streams /\ e.ordered /\ e.idx = 0 /\ e.buf = Out!Now.buf /\ e.pending = Out!Now.pending
    BY <1>1, <2>1, <2>2 DEF Streams
  <2>4. Out!Becomes(e) /\ msg' = msg BY <1>8 DEF Out!Reset, Out!Empty, Out!Go
  <2> HIDE DEF e
  <2>5. Out!Buffered(e) = <<>> BY <2>3, SubSeqEmpty DEF Out!Buffered
  <2>6. CASE Out!Reset
    <3>1. e.pending = msg /\ pc' = "copy" BY <1>1, <2>3, <2>6 DEF Out!Reset, Out!Go, Turn
    <3>2. e.pending = Out!Buffered(e) \o msg BY <1>2, <2>5, <3>1, ConcatEmptySeq
    <3>3. Turn(e, "copy", msg) BY <1>3, <2>3, <2>5, <3>2 DEF Turn, InTurn
    <3> QED BY <2>3, <2>4, <3>1, <3>3, Continues
  <2>7. CASE Out!Empty
    <3>1. e.pending = <<>> /\ pc' = "idle" BY <1>1, <2>3, <2>7 DEF Out!Empty, Out!Go, Turn
    <3>2. e.pending = Out!Buffered(e) \o <<>> BY <1>3, <2>5, <3>1, ConcatEmptySeq
    <3>3. Turn(e, "idle", msg') BY <1>3, <2>3, <2>5, <3>2 DEF Turn, InTurn
    <3> QED BY <2>3, <2>4, <3>1, <3>3, Continues
  <2> QED BY <1>8, <2>6, <2>7
<1>9. CASE Out!Copy
  <2>1. /\ Out!Becomes(Out!Copied(Out!Now, msg)) /\ pc' = "count" /\ msg' = msg
        /\ InTurn(Out!Now, msg) /\ ~Out!HasLine(Out!Buffered(Out!Now))
        /\ (Out!Direct(msg) > 0 => Out!Now.idx = 0)
        /\ Copying
    BY <1>1, <1>9 DEF Out!Copy, Out!Go, Turn, Copying
  <2>2. msg \o <<>> = msg BY <1>2, ConcatEmptySeq
  <2>3. CopyDone(Out!Now, Out!Copied(Out!Now, msg), msg, <<>>)
    BY <1>2, <1>3, <2>1, <2>2, CopiedInTurn
  <2>4. Turn(Out!Copied(Out!Now, msg), "count", msg)
    BY <2>1, <2>3 DEF CopyDone, Turn
  <2>5. Out!Copied(Out!Now, msg) \in Streams BY <2>3 DEF CopyDone
  <2> QED BY <2>1, <2>4, <2>5, Continues
<1>10. CASE Out!Count
  <2> DEFINE c == Out!Counted(Out!Now, msg)
  <2>1. /\ Out!Becomes(c) /\ pc' = (IF Out!HasLine(msg) THEN "line" ELSE "idle") /\ msg' = msg
        /\ CopyDone(Out!Now, Out!Now, msg, <<>>) /\ ~Out!HasLine(Out!Buffered(Out!Now)) /\ Copying
    BY <1>1, <1>10 DEF Out!Count, Out!Go, Turn, Copying
  <2>2. InTurn(c, <<>>) /\ Out!Buffered(c) = Out!Buffered(Out!Now) \o Kept(msg)
    BY <1>2, <1>3, <2>1, CountedInTurn
  <2>3. c \in Streams /\ c.ordered BY <2>2 DEF InTurn
  <2> HIDE DEF c
  <2>4. CASE Out!HasLine(msg)
    <3>1. Turn(c, "line", msg) BY <2>2, <2>3 DEF Turn
    <3> QED BY <2>1, <2>3, <2>4, <3>1, Continues
  <2>5. CASE ~Out!HasLine(msg)
    <3>1. ~Out!HasLine(Kept(msg)) /\ Kept(msg) \in Seq(Chars) BY <1>2, <2>5, KeptHasNoLine, KeptFacts
    <3>2. ~Out!HasLine(Out!Buffered(c)) BY <1>4, <2>1, <2>2, <3>1, NoLineAdded
    <3>3. Turn(c, "idle", msg) BY <2>2, <2>3, <3>2 DEF Turn
    <3> QED BY <2>1, <2>3, <2>5, <3>3, Continues
  <2> QED BY <2>4, <2>5
<1>11. CASE Out!handler
  <2>1. pc = "idle" /\ pc' = pc /\ msg' = msg BY <1>0, <1>11 DEF Out!handler
  <2>2. PICK text \in {<<>>, Prompt} :
          LET s == Out!fwrite(Out!Asked(Out!Now, Line \o text), Line) IN
            Out!Becomes(IF text = <<>> THEN s ELSE Out!fwrite(s, text))
    BY <1>11 DEF Out!handler
  <2>3. Line \in Seq(Chars) /\ text \in Seq(Chars) BY <1>3 DEF Printing
  <2>4. Line \o text \in Seq(Chars) BY <2>3, ConcatProperties
  <2> DEFINE a == Out!Asked(Out!Now, Line \o text)
             s == Out!fwrite(a, Line)
             t == IF text = <<>> THEN s ELSE Out!fwrite(s, text)
  <2>5. Out!Now.pending = Out!Buffered(Out!Now) \o <<>> /\ ~Out!HasLine(Out!Buffered(Out!Now))
    BY <1>1, <2>1 DEF Turn, InTurn
  <2>6. Out!Now.pending \o (Line \o text) = Out!Buffered(Out!Now) \o (Line \o text)
    BY <1>3, <1>4, <2>5, ConcatEmptySeq
  <2>7. a = [Out!Now EXCEPT !.pending = Out!Buffered(Out!Now) \o (Line \o text)]
    BY <1>1, <2>6 DEF Out!Asked
  <2>8. Out!Buffered(Out!Now) \o (Line \o text) \in Seq(Chars) BY <1>4, <2>4, ConcatProperties
  <2>9. Out!Becomes(t) BY <2>2
  <2> HIDE DEF a
  <2>10. /\ a \in Streams /\ a.ordered /\ a.buf = Out!Now.buf /\ a.idx = Out!Now.idx
         /\ a.pending = Out!Buffered(Out!Now) \o (Line \o text)
    BY <1>1, <2>7, <2>8 DEF Streams
  <2>11. Out!Buffered(a) = Out!Buffered(Out!Now) BY <2>10 DEF Out!Buffered
  <2>12. InTurn(a, Line \o text) /\ ~Out!HasLine(Out!Buffered(a)) BY <2>5, <2>10, <2>11 DEF InTurn
  <2>13. InTurn(s, text) /\ ~Out!HasLine(Out!Buffered(s)) BY <2>3, <2>12, FwriteInTurn
  <2> HIDE DEF s
  <2>14. InTurn(t, <<>>) /\ ~Out!HasLine(Out!Buffered(t))
    <3>1. text \o <<>> = text BY <2>3, ConcatEmptySeq
    <3>2. InTurn(Out!fwrite(s, text), <<>>) /\ ~Out!HasLine(Out!Buffered(Out!fwrite(s, text)))
      BY <1>3, <2>3, <2>13, <3>1, FwriteInTurn
    <3> QED BY <2>13, <3>2
  <2> HIDE DEF t
  <2>15. t \in Streams /\ Turn(t, "idle", msg') BY <2>14 DEF Turn, InTurn
  <2> QED BY <2>1, <2>9, <2>15, Continues
<1>12. CASE UNCHANGED Out!vars
  <2>1. Out!Now' = Out!Now /\ pc' = pc /\ msg' = msg BY <1>12 DEF Out!vars, Out!Now, Out!Stream
  <2>2. Out!Becomes(Out!Now) BY <1>12, NowFacts DEF Out!vars, Out!Becomes
  <2> QED BY <1>1, <2>1, <2>2, Continues
<1> QED BY <1>5, <1>6, <1>7, <1>8, <1>9, <1>10, <1>11, <1>12 DEF Out!Next

\* What is printed reaches the file in its order, none twice and none left out, and no end
\* of a line waits between calls, unless a handler prints inside a call: whatever lengths come
\* together with whatever buffer.
THEOREM PrintsInOrder == Out!Spec => []Out!PrintedInOrder
<1> USE PrintingAssumption
<1>1. Out!Init => Filled /\ Turns BY InitStream
<1>2. Filled /\ Turns /\ [Out!Next]_(Out!vars) => Filled' /\ Turns' BY FilledStep, TurnsStep
<1>3. Filled /\ Turns => Out!PrintedInOrder
  <2> SUFFICES ASSUME Turn(Out!Now, pc, msg)
               PROVE  /\ ordered
                      /\ pc = "idle" => /\ Out!Buffered(Out!Now) = pending
                                        /\ ~Out!HasLine(Out!Buffered(Out!Now))
    BY DEF Turns, Out!PrintedInOrder
  <2>1. Out!Now.ordered /\ Out!Now \in Streams BY DEF Turn
  <2>2. Out!Buffered(Out!Now) \in Seq(Chars) BY <2>1, BufferFacts DEF Streams, Out!Buffered
  <2>3. Out!Buffered(Out!Now) \o <<>> = Out!Buffered(Out!Now) BY <2>2, ConcatEmptySeq
  <2> QED BY <2>1, <2>3, NowFacts DEF Turn, InTurn
<1> QED BY <1>1, <1>2, <1>3, PTL DEF Out!Spec

-----------------------------------------------------------------------------
(* The disk *)

LEMMA Rest ==
  ASSUME NEW x \in Nat, NEW a \in Nat \ {0}
  PROVE  x % a \in 0 .. a - 1 /\ x \div a \in Nat /\ x = (a * (x \div a)) + (x % a)
OBVIOUS

LEMMA LeastFacts ==
  ASSUME NEW a \in Int, NEW b \in Int
  PROVE  /\ Ata!Least(a, b) \in {a, b} /\ Ata!Least(a, b) \in Int
         /\ Ata!Least(a, b) <= a /\ Ata!Least(a, b) <= b
BY DEF Ata!Least

LEMMA Commutes ==
  ASSUME NEW a \in Int, NEW b \in Int
  PROVE  a * b = b * a /\ a * b \in Int
OBVIOUS

LEMMA Grows ==
  ASSUME NEW a \in Nat, NEW x \in Int, NEW y \in Int, x <= y
  PROVE  a * x <= a * y /\ a * x \in Int /\ a * y \in Int
OBVIOUS

\* There is one sector that a byte lies in.
LEMMA OneSector ==
  ASSUME NEW a \in Nat \ {0}, NEW x \in Nat, NEW c \in Int, a * c <= x, x < (a * c) + a
  PROVE  c = x \div a /\ c \in Nat /\ x % a = x - (a * c)
<1>1. x % a \in 0 .. a - 1 /\ x \div a \in Nat /\ x = (a * (x \div a)) + (x % a) BY Rest
<1>2. ASSUME c + 1 <= x \div a
      PROVE  FALSE
  <2>1. a * (c + 1) <= a * (x \div a) BY <1>1, <1>2, Grows
  <2>2. a * (c + 1) = (a * c) + a OBVIOUS
  <2> QED BY <1>1, <2>1, <2>2
<1>3. ASSUME (x \div a) + 1 <= c
      PROVE  FALSE
  <2>1. a * ((x \div a) + 1) <= a * c BY <1>1, <1>3, Grows
  <2>2. a * ((x \div a) + 1) = (a * (x \div a)) + a BY <1>1
  <2> QED BY <1>1, <2>1, <2>2
<1>4. c = x \div a BY <1>1, <1>2, <1>3
<1> QED BY <1>1, <1>4

LEMMA Halves ==
  ASSUME NEW a \in Nat \ {0}, NEW x \in Nat, a % 2 = 0, x % 2 = 0
  PROVE  (x % a) % 2 = 0
<1>1. a = 2 * (a \div 2) /\ a \div 2 \in Nat /\ x = 2 * (x \div 2) /\ x \div 2 \in Nat
  BY Rest
<1>2. x % a \in 0 .. a - 1 /\ x \div a \in Nat /\ x = (a * (x \div a)) + (x % a) BY Rest
<1> DEFINE h == a \div 2
           q == x \div a
           r == x % a
           p == x \div 2
<1>3. a * q = 2 * (h * q) /\ h * q \in Nat
  <2>1. (2 * h) * q = 2 * (h * q) /\ h * q \in Nat BY <1>1, <1>2
  <2> QED BY <1>1, <2>1
<1>4. r = 2 * (p - (h * q)) BY <1>1, <1>2, <1>3
<1>5. r \in Nat /\ p - (h * q) \in Int BY <1>1, <1>2, <1>3
<1> HIDE DEF h, q, r, p
<1>6. r % 2 = 0 BY <1>4, <1>5
<1> QED BY <1>6 DEF r

LEMMA BytesFacts ==
  ASSUME Geometry
  PROVE  Sector * Sectors \in Nat \ {0} /\ Ata!Bytes \subseteq Nat
<1>1. Sector * 1 <= Sector * Sectors /\ Sector * Sectors \in Int BY Grows DEF Geometry
<1> QED BY <1>1 DEF Geometry, Ata!Bytes

\* Place k of the buffer is filled from the sector that byte k of the transfer lies in, and
\* from no other, if the transfer begins with a sector or stays inside one.
LEMMA ReadExact ==
  ASSUME Geometry, NEW pos \in Ata!Bytes, NEW size \in 1 .. MaxSize, Ata!Regular(pos, size)
  PROVE  Ata!Read(pos, size) =
           [k \in 0 .. MaxSize - 1 |-> IF k < size THEN disk[pos + k] ELSE Untouched]
<1>1. /\ Sector \in Nat \ {0} /\ pos \in Nat /\ MaxSize \in Nat /\ size \in Nat \ {0}
      /\ pos % Sector \in 0 .. Sector - 1 /\ pos \div Sector \in Nat
      /\ pos = (Sector * (pos \div Sector)) + (pos % Sector)
  <2>1. Sector \in Nat \ {0} /\ MaxSize \in Nat BY DEF Geometry
  <2>2. pos \in Nat BY BytesFacts
  <2>3. size \in Nat \ {0} BY <2>1
  <2>4. pos % Sector \in 0 .. Sector - 1 /\ pos \div Sector \in Nat
        /\ pos = (Sector * (pos \div Sector)) + (pos % Sector)
    BY <2>1, <2>2, Rest
  <2> QED BY <2>1, <2>2, <2>3, <2>4
<1>b. Sector \in Nat \ {0} BY <1>1
<1>2. \A a, b \in Int : /\ Ata!Least(a, b) \in {a, b} /\ Ata!Least(a, b) \in Int
                       /\ Ata!Least(a, b) <= a /\ Ata!Least(a, b) <= b
  BY LeastFacts
<1> SUFFICES ASSUME NEW k \in 0 .. MaxSize - 1
             PROVE  Ata!Read(pos, size)[k] = IF k < size THEN disk[pos + k] ELSE Untouched
  BY DEF Ata!Read
<1> DEFINE m == pos % Sector
           hits == Ata!ChunksAt(pos, size, k)
<1>a. k \in Nat BY <1>1
<1>3. Ata!Read(pos, size)[k] =
        IF hits = {} THEN Untouched
        ELSE LET c == CHOOSE x \in hits : TRUE
             IN Ata!SectorByte(pos + c * Sector, k - c * Sector + m)
  BY DEF Ata!Read
<1>4. \A c : c \in hits <=>
        /\ c \in Ata!Chunks(size)
        /\ k \in c * Sector .. Ata!Place(pos, c, Ata!Till(pos, c, size)) - 1
  <2>1. Ata!Chunks(size) \subseteq Int BY <1>1, Rest DEF Ata!Chunks
  <2>2. \A c \in Int : c * Sector \in Int BY <1>1
  <2>3. \A c \in Int : Ata!Place(pos, c, m) = c * Sector BY <1>1, <2>2 DEF Ata!Place
  <2> QED BY <2>1, <2>3 DEF Ata!ChunksAt
<1> HIDE DEF hits
<1>5. CASE m = 0
  <2>1. \A c \in Int : /\ c * Sector = Sector * c /\ c * Sector \in Int BY <1>1, Commutes
  <2>2. ASSUME NEW c \in Int
        PROVE  Ata!Place(pos, c, Ata!Till(pos, c, size)) =
                 Sector * c + Ata!Least(size - c * Sector, Sector)
    <3> DEFINE l == Ata!Least(size - c * Sector, Sector)
    <3>1. l \in Int /\ l <= Sector
      <4>1. size - c * Sector \in Int BY <1>1, <2>1
      <4> DEFINE t == size - c * Sector
      <4>2. t \in Int /\ Sector \in Int BY <1>b, <4>1
      <4> HIDE DEF t
      <4>3. Ata!Least(t, Sector) \in Int /\ Ata!Least(t, Sector) <= Sector BY <4>2, LeastFacts
      <4> QED BY <4>3 DEF t, l
    <3> HIDE DEF l
    <3>2. Ata!Least(Sector, m + l) = l BY <1>1, <1>5, <3>1 DEF Ata!Least
    <3>3. Ata!Till(pos, c, size) = l BY <3>2 DEF Ata!Till, l
    <3>4. Ata!Place(pos, c, l) = Sector * c + l BY <1>5, <2>1, <3>1 DEF Ata!Place
    <3> QED BY <3>3, <3>4 DEF l
  <2>3. ASSUME NEW c \in hits
        PROVE  c \in Int /\ Sector * c <= k /\ k < (Sector * c) + Sector /\ k < size
    <3>1. c \in Int /\ c \in Ata!Chunks(size) BY <1>1, <1>4, Rest DEF Ata!Chunks
    <3>2. Sector * c <= k /\ k <= Sector * c + Ata!Least(size - c * Sector, Sector) - 1
      <4>1. k \in c * Sector .. (Sector * c + Ata!Least(size - c * Sector, Sector)) - 1
        BY <1>4, <2>2, <3>1
      <4>2. size - c * Sector \in Int BY <1>1, <2>1, <3>1
      <4>3. Ata!Least(size - c * Sector, Sector) \in Int BY <1>1, <4>2, LeastFacts
      <4> HIDE DEF hits
      <4> DEFINE cs == c * Sector
                 l == Ata!Least(size - c * Sector, Sector)
      <4>4. cs = Sector * c /\ cs \in Int /\ l \in Int BY <2>1, <3>1, <4>3
      <4>5. k \in cs .. (Sector * c + l) - 1 BY <4>1
      <4> HIDE DEF cs, l
      <4>6. cs <= k /\ k <= Sector * c + l - 1 BY <1>a, <4>4, <4>5
      <4> QED BY <4>4, <4>6 DEF l
    <3>3. /\ Ata!Least(size - c * Sector, Sector) <= Sector
          /\ Ata!Least(size - c * Sector, Sector) <= size - c * Sector
          /\ Ata!Least(size - c * Sector, Sector) \in Int
      <4>1. size - c * Sector \in Int BY <1>1, <2>1, <3>1
      <4> QED BY <1>1, <4>1, LeastFacts
    <3>4. c * Sector = Sector * c /\ Sector * c \in Int BY <2>1, <3>1
    <3> QED BY <1>1, <1>a, <3>1, <3>2, <3>3, <3>4
  <2>4. CASE k < size
    <3> DEFINE c == k \div Sector
    <3>1. k % Sector \in 0 .. Sector - 1 /\ c \in Nat /\ k = (Sector * c) + (k % Sector)
      BY <1>1, <1>a, Rest
    <3>2. c \in Ata!Chunks(size)
      <4> DEFINE n == (size + Sector - 1) \div Sector
                 r == (size + Sector - 1) % Sector
      <4>1. size + Sector - 1 \in Nat BY <1>1
      <4>2. n \in Nat /\ r \in 0 .. Sector - 1 /\ size + Sector - 1 = (Sector * n) + r
        BY <1>1, <4>1, Rest
      <4> HIDE DEF n, r, c
      <4>3. ASSUME n <= c
            PROVE  FALSE
        <5>1. Sector * n <= Sector * c /\ Sector * n \in Int /\ Sector * c \in Int
          BY <1>1, <3>1, <4>2, <4>3, Grows
        <5> QED BY <1>1, <1>a, <2>4, <3>1, <4>2, <5>1
      <4>4. c \in 0 .. n - 1 BY <3>1, <4>2, <4>3
      <4> QED BY <4>4 DEF Ata!Chunks, n
    <3>3. c \in hits
      <4> HIDE DEF c
      <4>1. Sector * c \in Int /\ c * Sector = Sector * c BY <1>1, <3>1
      <4>2. Ata!Least(size - c * Sector, Sector) \in {size - c * Sector, Sector} BY <1>1, <1>2, <4>1
      <4>3. k \in c * Sector .. Ata!Place(pos, c, Ata!Till(pos, c, size)) - 1
        <5>1. Ata!Place(pos, c, Ata!Till(pos, c, size)) = Sector * c + Ata!Least(size - c * Sector, Sector)
          BY <2>2, <3>1
        <5> DEFINE cs == c * Sector
        <5>2. cs \in Int /\ cs = Sector * c BY <4>1
        <5>3. Ata!Least(size - cs, Sector) \in {size - cs, Sector} BY <4>2
        <5>4. Ata!Place(pos, c, Ata!Till(pos, c, size)) = cs + Ata!Least(size - cs, Sector) BY <5>1, <5>2
        <5>5. k \in Int /\ cs <= k /\ k < cs + Sector BY <1>1, <1>a, <3>1, <5>2
        <5> HIDE DEF cs
        <5>6. k \in cs .. (cs + Ata!Least(size - cs, Sector)) - 1
          BY <1>1, <2>4, <5>2, <5>3, <5>5
        <5> QED BY <5>4, <5>6 DEF cs
      <4> QED BY <1>4, <3>2, <4>3
    <3> HIDE DEF c
    <3>4. hits = {c}
      <4> SUFFICES ASSUME NEW d \in hits
                   PROVE  d = c
        BY <3>3
      <4> QED BY <1>1, <1>a, <2>3, <3>1, OneSector DEF c
    <3>5. (CHOOSE x \in hits : TRUE) = c BY <3>4
    <3>6. Ata!Read(pos, size)[k] = Ata!SectorByte(pos + c * Sector, k - c * Sector + m)
      BY <1>3, <3>4, <3>5
    <3>7. (pos + c * Sector) % Sector = 0
      <4>1. pos = Sector * (pos \div Sector) /\ pos \div Sector \in Nat
        <5> DEFINE w == Sector * (pos \div Sector)
        <5>1. w \in Int /\ pos = w + m BY <1>1, Commutes
        <5> HIDE DEF w
        <5>2. pos = w BY <1>5, <5>1
        <5> QED BY <1>1, <5>2 DEF w
      <4>2. pos + c * Sector = Sector * ((pos \div Sector) + c) /\ (pos \div Sector) + c \in Nat
            /\ pos + c * Sector \in Nat
        <5> DEFINE p == pos \div Sector
        <5>1. p \in Nat /\ pos = Sector * p /\ c \in Nat BY <3>1, <4>1
        <5> HIDE DEF p, c
        <5>2. Sector * (p + c) = Sector * p + Sector * c BY <1>1, <5>1
        <5>3. c * Sector = Sector * c /\ c * Sector \in Nat BY <1>1, <5>1
        <5>4. pos + c * Sector = Sector * (p + c) BY <5>1, <5>2, <5>3
        <5>5. p + c \in Nat /\ pos + c * Sector \in Nat BY <1>1, <5>1, <5>3
        <5> QED BY <5>4, <5>5 DEF p
      <4> HIDE DEF m
      <4> DEFINE x == pos + c * Sector
                 e == (pos \div Sector) + c
      <4>3. x \in Nat /\ e \in Int /\ Sector * e <= x /\ x < (Sector * e) + Sector /\ x - (Sector * e) = 0
        BY <1>1, <4>2
      <4> HIDE DEF x, e
      <4>4. x % Sector = 0 BY <1>1, <4>3, OneSector
      <4> QED BY <4>4 DEF x
    <3>8. Ata!SectorByte(pos + c * Sector, k - c * Sector + m) = disk[pos + k]
      <4> DEFINE cs == c * Sector
      <4>1. cs \in Int BY <1>1, <2>1, <3>1
      <4> HIDE DEF cs
      <4>2. (pos + cs) - 0 + (k - cs + m) = pos + k BY <1>1, <1>5, <1>a, <4>1
      <4>3. 0 % 2 = 0 OBVIOUS
      <4>4. (pos + cs) % Sector = 0 BY <3>7 DEF cs
      <4> HIDE DEF m
      <4>5. Ata!SectorByte(pos + cs, k - cs + m) = disk[(pos + cs) - 0 + (k - cs + m)]
        BY <4>3, <4>4 DEF Ata!SectorByte
      <4> QED BY <4>2, <4>5 DEF cs
    <3> QED BY <2>4, <3>6, <3>8
  <2>5. CASE ~(k < size)
    <3>1. hits = {} BY <2>3, <2>5
    <3> QED BY <1>3, <2>5, <3>1
  <2> QED BY <2>4, <2>5
<1>6. CASE m # 0
  <2>1. pos % 2 = 0 /\ m + size <= Sector BY <1>6 DEF Ata!Regular
  <2>2. m % 2 = 0 BY <1>1, <2>1, Halves DEF Geometry
  <2>3. Ata!Chunks(size) = {0}
    <3>1. (size + Sector - 1) \div Sector = 1
      <4>1. /\ size + Sector - 1 \in Nat /\ Sector * 1 <= size + Sector - 1
            /\ size + Sector - 1 < (Sector * 1) + Sector
        BY <1>1, <2>1
      <4> DEFINE x == size + Sector - 1
      <4>2. x \in Nat /\ Sector * 1 <= x /\ x < (Sector * 1) + Sector BY <4>1
      <4> HIDE DEF x
      <4> DEFINE one == 1
      <4>3. one \in Int /\ Sector * one <= x /\ x < (Sector * one) + Sector BY <4>2
      <4>4. one = 1 OBVIOUS
      <4> HIDE DEF one
      <4>5. one = x \div Sector BY <1>b, <4>2, <4>3, OneSector
      <4> QED BY <4>4, <4>5 DEF x
    <3> QED BY <3>1 DEF Ata!Chunks
  <2>4. 0 * Sector = 0 /\ size - 0 * Sector = size BY <1>1
  <2>5. Ata!Till(pos, 0, size) = m + size
    <3>1. Ata!Least(size, Sector) = size BY <1>1, <2>1 DEF Ata!Least
    <3>2. Ata!Least(Sector, m + size) = m + size BY <1>1, <2>1 DEF Ata!Least
    <3> QED BY <2>4, <3>1, <3>2 DEF Ata!Till
  <2>6. Ata!Place(pos, 0, m + size) = size BY <1>1, <2>4 DEF Ata!Place
  <2>7. hits = IF k < size THEN {0} ELSE {} BY <1>1, <1>4, <1>a, <2>3, <2>4, <2>5, <2>6
  <2>8. CASE k < size
    <3>1. hits = {0} BY <2>7, <2>8
    <3>2. Ata!Read(pos, size)[k] = Ata!SectorByte(pos + 0 * Sector, k - 0 * Sector + m) BY <1>3, <3>1
    <3>3. pos + 0 * Sector = pos /\ k - 0 * Sector + m = k + m BY <1>1, <1>a, <2>4
    <3>4. pos - m + (k + m) = pos + k BY <1>1, <1>a
    <3> QED BY <2>2, <2>8, <3>2, <3>3, <3>4 DEF Ata!SectorByte
  <2>9. CASE ~(k < size) BY <1>3, <2>7, <2>9
  <2> QED BY <2>8, <2>9
<1> QED BY <1>5, <1>6

\* A byte of the disk is replaced, by the part of its sector, if it lies in the transfer.
LEMMA WriteExact ==
  ASSUME Geometry, NEW pos \in Ata!Bytes, NEW size \in 1 .. MaxSize, NEW b \in Ata!Bytes
  PROVE  (\E c \in 0 .. size : b \in Ata!Replaced(pos, size, c)) <=> b \in pos .. pos + size - 1
<1>1. Sector \in Nat \ {0} /\ pos \in Nat /\ b \in Nat /\ size \in Nat \ {0}
  BY BytesFacts DEF Geometry
<1>2. \A x, y \in Int : /\ Ata!Least(x, y) \in {x, y} /\ Ata!Least(x, y) \in Int
                       /\ Ata!Least(x, y) <= x /\ Ata!Least(x, y) <= y
  BY LeastFacts
<1> DEFINE p == pos \div Sector
           q == b \div Sector
<1>3. p \in Nat /\ pos % Sector \in 0 .. Sector - 1 /\ pos = (Sector * p) + (pos % Sector)
  BY <1>1, Rest
<1>4. q \in Nat /\ b % Sector \in 0 .. Sector - 1 /\ b = (Sector * q) + (b % Sector)
  BY <1>1, Rest
<1> HIDE DEF p, q
<1>a. Sector * p \in Int /\ Sector * q \in Int BY <1>1, <1>3, <1>4
<1>5. ASSUME NEW c \in 0 .. size, b \in Ata!Replaced(pos, size, c)
      PROVE  b \in pos .. pos + size - 1
  <2> DEFINE start == (p + c) * Sector
  <2>1. start \in Int /\ start = (Sector * p) + (Sector * c) /\ Sector * c \in Int BY <1>1, <1>3
  <2>2. b \in (IF c = 0 THEN pos ELSE start) .. Ata!Least(start + Sector, pos + size) - 1
    BY <1>5 DEF Ata!Replaced, p
  <2> HIDE DEF start
  <2>3. /\ Ata!Least(start + Sector, pos + size) <= pos + size
        /\ Ata!Least(start + Sector, pos + size) \in Int
    <3>1. start + Sector \in Int /\ pos + size \in Int BY <1>1, <2>1
    <3> QED BY <3>1, LeastFacts
  <2>4. b <= pos + size - 1 BY <1>1, <2>1, <2>2, <2>3
  <2>5. pos <= b
    <3>1. CASE c = 0 BY <1>1, <2>2, <2>3, <3>1
    <3>2. CASE c # 0
      <4>1. Sector * 1 <= Sector * c BY <1>1, <3>2, Grows
      <4>2. start <= b BY <1>1, <2>1, <2>2, <2>3, <3>2
      <4> QED BY <1>1, <1>3, <1>a, <2>1, <4>1, <4>2
    <3> QED BY <3>1, <3>2
  <2> QED BY <1>1, <2>4, <2>5
<1>6. ASSUME b \in pos .. pos + size - 1
      PROVE  \E c \in 0 .. size : b \in Ata!Replaced(pos, size, c)
  <2> DEFINE c == q - p
             start == (p + c) * Sector
  <2>1. start = Sector * q /\ start <= b /\ b < start + Sector /\ start \in Int
    BY <1>1, <1>3, <1>4
  <2>2. p <= q
    <3> SUFFICES ASSUME q + 1 <= p
                 PROVE  FALSE
      BY <1>3, <1>4
    <3>1. Sector * (q + 1) <= Sector * p BY <1>1, <1>3, <1>4, Grows
    <3>2. Sector * (q + 1) = (Sector * q) + Sector BY <1>1, <1>4
    <3> QED BY <1>1, <1>3, <1>4, <1>6, <1>a, <3>1, <3>2
  <2>3. c <= size
    <3> SUFFICES ASSUME size + 1 <= c
                 PROVE  FALSE
      BY <1>1, <1>3, <1>4
    <3>1. c \in Int /\ 1 <= c - 1 BY <1>1, <1>3, <1>4
    <3>2. Sector * c = (Sector * q) - (Sector * p) BY <1>1, <1>3, <1>4
    <3>3. Sector * c <= b - pos + (Sector - 1) BY <1>1, <1>3, <1>4, <1>a, <3>2
    <3>4. Sector * c = (Sector * (c - 1)) + Sector BY <1>1, <3>1
    <3>5. Sector * (c - 1) >= c - 1 /\ Sector * (c - 1) \in Int
      <4> DEFINE d == c - 1
      <4>1. d \in Nat BY <3>1
      <4> HIDE DEF d
      <4>2. d * 1 <= d * Sector BY <1>1, <4>1, Grows
      <4>3. d * 1 = d /\ d * Sector = Sector * d /\ Sector * d \in Int BY <1>1, <4>1
      <4>4. Sector * d >= d /\ Sector * d \in Int BY <4>1, <4>2, <4>3
      <4> QED BY <4>4 DEF d
    <3> HIDE DEF c
    <3> QED BY <1>1, <1>6, <3>1, <3>3, <3>4, <3>5
  <2>4. c \in 0 .. size BY <1>1, <1>3, <1>4, <2>2, <2>3
  <2> HIDE DEF c
  <2>5. b \in (IF c = 0 THEN pos ELSE start) .. Ata!Least(start + Sector, pos + size) - 1
    <3> HIDE DEF start
    <3>1. Ata!Least(start + Sector, pos + size) \in {start + Sector, pos + size} BY <1>1, <1>2, <2>1
    <3> QED BY <1>1, <1>6, <2>1, <3>1
  <2>6. b \in Ata!Replaced(pos, size, c) BY <2>5 DEF Ata!Replaced, p
  <2> QED BY <2>4, <2>6
<1> QED BY <1>5, <1>6

\* A regular read stores the bytes at its position, in order, and no others, and a write
\* changes the bytes it is given and no others: for sectors of any even size, a disk of any
\* length and transfers of any length at any position.
THEOREM TransfersAreExact == Ata!Spec => Ata!TransfersExact
<1> USE GeometryAssumption
<1>1. Ata!Init => disk_position \in Ata!Bytes
  BY BytesFacts DEF Ata!Init, Ata!Bytes
<1>2. disk_position \in Ata!Bytes /\ [Ata!Next]_(Ata!vars) => (disk_position \in Ata!Bytes)'
  <2> SUFFICES ASSUME disk_position \in Ata!Bytes, [Ata!Next]_(Ata!vars)
               PROVE  disk_position' \in Ata!Bytes
    BY DEF Ata!Bytes
  <2>1. Sector * Sectors \in Nat \ {0} /\ disk_position \in Nat BY BytesFacts
  <2>2. ASSUME NEW size \in 1 .. MaxSize, Ata!read(size) \/ Ata!write(size)
        PROVE  disk_position' \in Ata!Bytes
    <3>1. disk_position + size \in Nat BY <2>1 DEF Geometry
    <3>2. (disk_position + size) % (Sector * Sectors) \in 0 .. (Sector * Sectors) - 1
      BY <2>1, <3>1, Rest
    <3> QED BY <2>2, <3>2 DEF Ata!read, Ata!write, Ata!Bytes
  <2> QED BY <2>2 DEF Ata!Next, Ata!seek, Ata!vars
<1>3. disk_position \in Ata!Bytes /\ [Ata!Next]_(Ata!vars) => [Ata!Exact]_(Ata!vars)
  <2> SUFFICES ASSUME disk_position \in Ata!Bytes, NEW size \in 1 .. MaxSize
               PROVE  /\ Ata!read(size) /\ Ata!Regular(disk_position, size) =>
                           buffer' = [k \in 0 .. MaxSize - 1 |->
                                        IF k < size THEN disk[disk_position + k] ELSE Untouched]
                      /\ Ata!write(size) =>
                           disk' = [b \in Ata!Bytes |-> IF b \in disk_position .. disk_position + size - 1
                                                      THEN Ata!Data(writes', b - disk_position) ELSE disk[b]]
    BY DEF Ata!Exact
  <2>1. Ata!read(size) /\ Ata!Regular(disk_position, size) =>
          buffer' = [k \in 0 .. MaxSize - 1 |->
                       IF k < size THEN disk[disk_position + k] ELSE Untouched]
    BY ReadExact DEF Ata!read
  <2>2. Ata!write(size) =>
          disk' = [b \in Ata!Bytes |-> IF b \in disk_position .. disk_position + size - 1
                                     THEN Ata!Data(writes', b - disk_position) ELSE disk[b]]
    BY WriteExact DEF Ata!write
  <2> QED BY <2>1, <2>2
<1> QED BY <1>1, <1>2, <1>3, PTL DEF Ata!Spec, Ata!TransfersExact

-----------------------------------------------------------------------------
(* The game *)

\* What keeps a turn from beginning in danger: no room has bats and a pit, and between turns
\* the player is with neither the bats nor the wumpus.
Lurking ==
  /\ has_a_bat \cap has_a_pit = {}
  /\ turn \in {"play", "arrow"} => player_loc \notin {wumpus_loc} \cup has_a_bat

\* No turn of the player begins in a room with bats or with the wumpus: in any cave, with any
\* number of bats, pits and arrows.
THEOREM TurnsAreSafe == Game!Spec => []Game!TurnsBeginSafe
<1>1. Game!Init => Lurking
  BY DEF Game!Init, Game!Placings, Lurking
<1>2. Lurking /\ [Game!Next]_(Game!vars) => Lurking'
  <2> SUFFICES ASSUME Lurking, [Game!Next]_(Game!vars)
               PROVE  Lurking'
    OBVIOUS
  <2>1. CASE Game!hit_wall BY <2>1 DEF Lurking, Game!hit_wall, Game!things
  <2>2. CASE Game!enter_room BY <2>2 DEF Lurking, Game!enter_room, Game!things, Game!AfterBats
  <2>3. CASE Game!shoot \/ Game!land
    BY <2>3 DEF Lurking, Game!shoot, Game!land, Game!things
  <2>4. ASSUME NEW room \in Game!Rooms, Game!move_to(room) \/ Game!fly(room)
        PROVE  Lurking'
    BY <2>4 DEF Lurking, Game!move_to, Game!fly, Game!things
  <2>5. CASE UNCHANGED Game!vars BY <2>5 DEF Lurking, Game!vars
  <2> QED BY <2>1, <2>2, <2>3, <2>4, <2>5 DEF Game!Next
<1>3. Lurking => Game!TurnsBeginSafe
  BY DEF Lurking, Game!TurnsBeginSafe
<1> QED BY <1>1, <1>2, <1>3, PTL DEF Game!Spec

-----------------------------------------------------------------------------
(* The parts together *)

\* A step is one of a single part, and each of the others stays as it is.
LEMMA PartsStep ==
  ASSUME [ProgramsNext /\ UNCHANGED part]_programsVars
  PROVE  /\ [Next]_vars /\ [Out!Next]_(Out!vars) /\ [Game!Next]_(Game!vars)
         /\ [Ata!Next]_(Ata!vars)
<1>1. CASE part = "console" /\ Next /\ UNCHANGED <<ataVars, stdioVars, wumpVars>>
  BY <1>1 DEF ataVars, stdioVars, wumpVars, Out!vars, Game!vars, Ata!vars
<1>2. CASE part = "disk" /\ Ata!Next /\ UNCHANGED <<vars, stdioVars, wumpVars>>
  BY <1>2 DEF stdioVars, wumpVars, Out!vars, Game!vars
<1>3. CASE part = "stream" /\ Out!Next /\ UNCHANGED <<vars, ataVars, wumpVars>>
  BY <1>3 DEF ataVars, wumpVars, Game!vars, Ata!vars
<1>4. CASE part = "game" /\ Game!Next /\ UNCHANGED <<vars, ataVars, stdioVars>>
  BY <1>4 DEF ataVars, stdioVars, Out!vars, Ata!vars
<1>5. CASE UNCHANGED programsVars
  BY <1>5 DEF programsVars, ataVars, stdioVars, wumpVars, Out!vars, Game!vars, Ata!vars
<1> QED BY <1>1, <1>2, <1>3, <1>4, <1>5 DEF ProgramsNext

\* Whatever part is at work: the shell executes the lines that were typed.
THEOREM LinesExecuted == ProgramsSpec => []CommandsAreLines
<1>1. ProgramsInit => IInv
  BY InitIInv DEF ProgramsInit
<1>2. IInv /\ [ProgramsNext /\ UNCHANGED part]_programsVars => IInv'
  BY PartsStep, StepIInv
<1>3. IInv => CommandsAreLines
  BY DEF IInv
<1> QED BY <1>1, <1>2, <1>3, PTL DEF ProgramsSpec

\* What the programs print reaches the file in its order.
THEOREM TextsInOrder == ProgramsSpec => []PrintedInOrder
<1>1. ProgramsInit => Out!Init
  BY DEF ProgramsInit
<1>2. [ProgramsNext /\ UNCHANGED part]_programsVars => [Out!Next]_(Out!vars)
  BY PartsStep
<1> QED BY <1>1, <1>2, PrintsInOrder, PTL DEF ProgramsSpec, Out!Spec, PrintedInOrder

\* Their stream stays in its buffer, unless a handler's prompt and a call's text do not fit
\* into it together.
THEOREM StreamStaysInBuffer == ProgramsSpec => []BufferHolds
<1>1. ProgramsInit => Out!Init
  BY DEF ProgramsInit
<1>2. [ProgramsNext /\ UNCHANGED part]_programsVars => [Out!Next]_(Out!vars)
  BY PartsStep
<1> QED BY <1>1, <1>2, StaysInBuffer, PTL DEF ProgramsSpec, Out!Spec, BufferHolds

\* The disk's regular reads and all its writes are exact.
THEOREM DiskIsExact == ProgramsSpec => TransfersExact
<1>1. ProgramsInit => Ata!Init
  BY DEF ProgramsInit
<1>2. [ProgramsNext /\ UNCHANGED part]_programsVars => [Ata!Next]_(Ata!vars)
  BY PartsStep
<1>3. [Ata!Exact]_(Ata!vars) => [part = "disk" => Ata!Exact]_ataVars
  BY DEF Ata!vars, ataVars
<1> QED
  BY <1>1, <1>2, <1>3, TransfersAreExact, PTL
  DEF ProgramsSpec, Ata!Spec, Ata!TransfersExact, TransfersExact

\* No turn of the player begins in danger.
THEOREM GameIsFair == ProgramsSpec => []TurnsBeginSafe
<1>1. ProgramsInit => Game!Init
  BY DEF ProgramsInit
<1>2. [ProgramsNext /\ UNCHANGED part]_programsVars => [Game!Next]_(Game!vars)
  BY PartsStep
<1> QED BY <1>1, <1>2, TurnsAreSafe, PTL DEF ProgramsSpec, Game!Spec, TurnsBeginSafe
=============================================================================
