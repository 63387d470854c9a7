--------------------------- MODULE LayoutScanner ---------------------------
(***************************************************************************)
(* The external scanner of the tree-sitter grammar                         *)
(* (tree-sitter-medaka/src/scanner.c): from the indentation of the lines   *)
(* it makes the NEWLINE, INDENT and DEDENT tokens the grammar asks for.     *)
(*                                                                         *)
(* A document is the columns its lines start in.  A parser in some state    *)
(* asks for a token: the sets of tokens it may ask for are the rows of the  *)
(* generated parser's table, which of them it asks for is left open.  What  *)
(* the scanner decided is kept between two calls in a buffer of bytes, and  *)
(* in nothing else: tree-sitter restores the buffer of the last token       *)
(* before every call, keeps the new one only when the call gave a token,    *)
(* and otherwise lexes on without the scanner.  One parse is modelled; the  *)
(* others tree-sitter may follow at the same time have their own buffers.   *)
(***************************************************************************)
EXTENDS Integers, Sequences, FiniteSets

CONSTANTS
  Lines,       \* lines of the document
  Documents,   \* the columns the lines may start in
  Byte,        \* values a byte of the buffer holds: 256
  StackMax,    \* STACK_MAX: 256
  PendingMax,  \* PENDING_MAX: 512
  BufMax       \* bytes of the buffer: 1024

ASSUME ScannerAssumption ==
  /\ Lines \in Nat \ {0} /\ Documents \subseteq [1..Lines -> Nat]
  /\ StackMax \in Nat /\ 1 < StackMax /\ StackMax <= Byte
  /\ Byte <= 2 * (StackMax - 1)
  /\ Byte \in Nat /\ BufMax \in Nat /\ PendingMax \in Nat
  \* the stack, and two tokens for every level a dedent may close, find room
  /\ PendingMax >= 2 * StackMax - 1
  /\ BufMax >= 4 * Byte

VARIABLES
  cols,      \* the column of each line
  at,        \* "text" of a line, the "break" after it, a "gap" before the text that
             \* blank lines leave, the "end" of the file, or "done"
  line,      \* the line the parser is on
  buf,       \* the scanner's state as serialised with the last token
  opened,    \* INDENTs the parser was given
  closed,    \* DEDENTs the parser was given
  heard,     \* lines whose beginning the scanner gave a token for
  eager,     \* the parser asked for both NEWLINE and DEDENT when it ended
  deepest    \* the most levels that were ever open

vars == <<cols, at, line, buf, opened, closed, heard, eager, deepest>>

Structural == {"NEWLINE", "INDENT", "DEDENT"}

\* ts_external_scanner_states, row by row; row 1 is error recovery.
ValidSets ==
  {Structural \cup {"INTERP_OPEN", "INTERP_MID", "INTERP_END"},
   {"NEWLINE"},
   {"INTERP_OPEN"},
   {"NEWLINE", "INTERP_OPEN"},
   {"INTERP_OPEN", "INTERP_MID", "INTERP_END"},
   {"INDENT", "INTERP_OPEN"},
   {"DEDENT", "INTERP_OPEN"},
   {"DEDENT"},
   {"INDENT"},
   {"INTERP_MID", "INTERP_END"}}

Smaller(a, b) == IF a < b THEN a ELSE b
Last(s) == s[Len(s)]

-----------------------------------------------------------------------------
(* The state between two calls *)

Ground == [stack |-> <<0>>, queue |-> << >>]
Empty == [depth |-> 0, stack |-> << >>, count |-> 0, queue |-> << >>]

(* serialize: a byte for the depth, four for every level as long as they   *)
(* fit, a byte for the number of queued tokens and one for each of them.   *)
Saved(s) ==
  LET levels == Smaller(Len(s.stack), (BufMax - 1) \div 4)
      room == BufMax - (2 + 4 * levels)
  IN  [depth |-> Len(s.stack) % Byte,
       stack |-> SubSeq(s.stack, 1, levels),
       count |-> Len(s.queue) % Byte,
       queue |-> SubSeq(s.queue, 1, Smaller(Len(s.queue), room))]

\* Mutant: the queue is not read back.
RestoredStackOnly(b) ==
  IF b.depth = 0 THEN Ground ELSE [stack |-> SubSeq(b.stack, 1, b.depth), queue |-> << >>]

\* deserialize: a depth of zero, as of an empty buffer, is the initial state.
Restored(b) ==
  IF b.depth = 0 THEN Ground
  ELSE [stack |-> SubSeq(b.stack, 1, b.depth),
        queue |-> SubSeq(b.queue, 1, Smaller(b.count, Len(b.queue)))]

Stack == Restored(buf).stack
Queue == Restored(buf).queue
Depth == Len(Stack)

Init ==
  /\ cols \in Documents
  /\ at = "text" /\ line = 1
  /\ buf = Empty
  /\ opened = 0 /\ closed = 0 /\ deepest = 0
  /\ heard = {1} /\ eager = FALSE

-----------------------------------------------------------------------------
(* scan *)

\* What lies ahead: a string, plain or interpolated, the rest of one behind a
\* closing brace, blanks up to the next newline or the end, or anything else.
Ahead == CASE at = "text" -> {"word", "plain", "open", "mid", "end"}
           [] at = "gap" -> {"blank"}
           [] OTHER -> {"word", "blank"}
InterpToken(ahead) ==
  CASE ahead = "open" -> "INTERP_OPEN" [] ahead = "mid" -> "INTERP_MID"
    [] ahead = "end" -> "INTERP_END" [] OTHER -> "none"

\* The branches for strings come first, and return whatever is queued.
ForStrings(V, ahead) ==
  \/ ahead \in {"plain", "open"} /\ "INTERP_OPEN" \in V
  \/ ahead \in {"mid", "end"} /\ V \cap {"INTERP_MID", "INTERP_END"} # {}
ForLayout(V, ahead) == ~ ForStrings(V, ahead) /\ V \cap Structural # {}

\* Blanks hide what is behind them, unless INTERP_OPEN skips them.
Hidden(V, ahead) == ahead = "blank" /\ "INTERP_OPEN" \notin V

Close(d, q) == [stack |-> SubSeq(Stack, 1, d), queue |-> q]
Alternating(n) == [i \in 1..n |-> IF i % 2 = 1 THEN "NEWLINE" ELSE "DEDENT"]

\* enqueue: NEWLINE, then DEDENT and NEWLINE for each level above d.
Closing(d) == Close(d, Alternating(Smaller(2 * (Depth - d) + 1, PendingMax)))

\* Mutant: a dedent closes one level.
LevelsForOne(c) == IF Depth > 1 THEN Depth - 1 ELSE 1

\* The levels that are left for a line in column c.
LevelsFor(c) == CHOOSE d \in 1..Depth :
                  /\ d = 1 \/ Stack[d] <= c
                  /\ \A e \in (d + 1)..Depth : Stack[e] > c

\* A full stack is not pushed, the token is given all the same.
Indented(c) == [stack |-> IF Depth < StackMax THEN Append(Stack, c) ELSE Stack,
                queue |-> <<"INDENT">>]

\* The line behind the newline: of the break, or of a blank line in the gap.
Behind == IF at = "break" THEN line + 1 ELSE line

\* What the scanner decides at a newline: the new state, its first token queued.
Decided ==
  IF Behind > Lines THEN Closing(1)
  ELSE LET c == cols[Behind]
       IN  IF c > Last(Stack) THEN Indented(c) ELSE Closing(LevelsFor(c))

(* The call gives token t and the parser takes it: the state is serialised. *)
Give(t, s) ==
  /\ buf' = Saved(s)
  /\ opened' = opened + (IF t = "INDENT" THEN 1 ELSE 0)
  /\ closed' = closed + (IF t = "DEDENT" THEN 1 ELSE 0)
  /\ deepest' = IF Len(s.stack) - 1 > deepest THEN Len(s.stack) - 1 ELSE deepest

Dequeued(s) == [stack |-> s.stack, queue |-> Tail(s.queue)]

StringGiven(V, ahead) == ForStrings(V, ahead) /\ InterpToken(ahead) \in V
GiveString(V, ahead) ==
  /\ StringGiven(V, ahead)
  /\ Give(InterpToken(ahead), Restored(buf))
  /\ UNCHANGED <<cols, at, line, heard>>

\* 1. A queued token, once it is valid.
QueuedGiven(V, ahead) == ForLayout(V, ahead) /\ Queue # << >> /\ Head(Queue) \in V
GiveQueued(V, ahead) ==
  /\ QueuedGiven(V, ahead)
  /\ Give(Head(Queue), Dequeued(Restored(buf)))
  /\ UNCHANGED <<cols, at, line, heard>>

\* Mutant: the end of the file leaves the outermost block open.
EndGivenAbove(V, ahead) ==
  /\ ForLayout(V, ahead) /\ ~ Hidden(V, ahead) /\ Queue = << >>
  /\ at = "end" /\ Depth > 2 /\ "DEDENT" \in V

\* 2. No newline: at the end of the file the open levels are closed.
EndGiven(V, ahead) ==
  /\ ForLayout(V, ahead) /\ ~ Hidden(V, ahead) /\ Queue = << >>
  /\ at = "end" /\ Depth > 1 /\ "DEDENT" \in V
GiveAtEnd(V, ahead) ==
  /\ EndGiven(V, ahead)
  /\ Give("DEDENT", Close(Depth - 1, << >>))
  /\ UNCHANGED <<cols, at, line, heard>>

\* 3. A newline, the empty lines behind it, and the first token they call for.
NewlineGiven(V, ahead) ==
  /\ ForLayout(V, ahead) /\ ~ Hidden(V, ahead) /\ Queue = << >>
  /\ at \in {"break", "gap"}
  /\ Head(Decided.queue) \in V
GiveAtNewline(V, ahead) ==
  /\ NewlineGiven(V, ahead)
  /\ Give(Head(Decided.queue), Dequeued(Decided))
  /\ IF Behind > Lines THEN at' = "end" /\ UNCHANGED <<line, heard>>
     ELSE /\ at' \in {"text"} \cup (IF at = "break" THEN {"gap"} ELSE {})
          /\ line' = Behind /\ heard' = heard \cup {Behind}
  /\ UNCHANGED cols

(* No token: the buffer stays what it was, and the grammar's own lexer goes *)
(* on, over the text, or over the newline and the text behind it.  The last *)
(* line may end without a newline.                                          *)
LexOn(V, ahead) ==
  /\ ~ (StringGiven(V, ahead) \/ QueuedGiven(V, ahead) \/ EndGiven(V, ahead) \/ NewlineGiven(V, ahead))
  /\ CASE at \in {"text", "gap"} ->
              at' \in {"break"} \cup (IF line = Lines THEN {"end"} ELSE {}) /\ UNCHANGED line
       [] at = "break" /\ line < Lines -> at' = "text" /\ line' = line + 1
       [] OTHER -> at' = "done" /\ UNCHANGED line
  /\ UNCHANGED <<cols, buf, opened, closed, heard, deepest>>

\* The end of the file, once it is taken, is the last thing asked for.
Scan ==
  /\ at # "done"
  /\ \E V \in ValidSets \cup {{}}, ahead \in Ahead :
       /\ \/ GiveString(V, ahead) \/ GiveQueued(V, ahead) \/ GiveAtEnd(V, ahead)
          \/ GiveAtNewline(V, ahead) \/ LexOn(V, ahead)
       /\ eager' = (at' = "done" /\ {"NEWLINE", "DEDENT"} \subseteq V)

Done == at = "done" /\ UNCHANGED vars

Next == Scan \/ Done
Spec == Init /\ [][Next]_vars

-----------------------------------------------------------------------------
TypeOK ==
  /\ cols \in Documents
  /\ at \in {"text", "gap", "break", "end", "done"} /\ line \in 1..Lines
  /\ buf.depth \in 0..(Byte - 1) /\ buf.count \in 0..(Byte - 1)
  /\ buf.stack \in Seq(Nat) /\ buf.queue \in Seq(Structural)
  /\ opened \in Nat /\ closed \in Nat /\ deepest \in Nat
  /\ heard \subseteq 1..Lines /\ eager \in BOOLEAN

\* A byte counts the tokens a dedent from every level leaves in the queue.
Countable == 2 * deepest < Byte

QueuedDedents == Cardinality({i \in DOMAIN Queue : Queue[i] = "DEDENT"})

(* Every INDENT the parser was given is a level of the stack, a DEDENT that  *)
(* is queued or one it was given: no level is lost or closed twice between   *)
(* the buffer, the queue and calls that gave nothing, as long as the queue   *)
(* of a dedent from the deepest level is counted by a byte (at 128 levels    *)
(* it is not: the count wraps to zero and the queue is forgotten).           *)
Balanced ==
  Countable => opened - closed = (Depth - 1) + QueuedDedents

(* The open levels are the blocks the current line is in: each was opened by *)
(* a line of that column, no line heard since starts left of it, and the     *)
(* current line, if it was heard, starts no further left than the innermost. *)
LevelsEnclose ==
  /\ \A i \in 2..Depth :
       /\ Stack[i - 1] < Stack[i]
       /\ \E j \in heard : /\ cols[j] = Stack[i]
                           /\ \A m \in heard : j < m => Stack[i] <= cols[m]
  /\ line \in heard => Depth = 1 \/ Last(Stack) <= cols[line]

(* A parser that ends on asking for either token at the end of the file was  *)
(* given a DEDENT for every INDENT.                                          *)
EndCloses ==
  at = "done" /\ eager /\ Countable => opened = closed
=============================================================================
