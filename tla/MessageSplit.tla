---------------------------- MODULE MessageSplit ----------------------------
(***************************************************************************)
(* split_message (handler/formatter.rs:80-151): a text is cut, line after   *)
(* line, into messages for Discord, and a code block that a cut goes        *)
(* through is closed in one message and reopened in the next.               *)
(*                                                                         *)
(* A line is its length in characters and whether it starts with ```; a     *)
(* message is its length and the number of its ```.  Every line holds more  *)
(* than blanks, so trim_end removes the final newline alone.                *)
(***************************************************************************)
EXTENDS Integers, Sequences, SequencesExt

CONSTANTS MaxLen,       \* max_len, in characters
          LineKinds,    \* the lines texts are made of: [size, fence]
          MaxLines      \* bound: lines of a text

ASSUME SplitAssumption ==
  /\ MaxLen \in Nat /\ MaxLen > 10 /\ MaxLines \in Nat
  /\ LineKinds \subseteq [size : Nat \ {0}, fence : BOOLEAN]
  \* A longer fence line than a message would be reopened whole in every message.
  /\ \A l \in LineKinds : l.fence => l.size \in 3..(MaxLen - 10)

VARIABLES rest,         \* the lines not taken yet
          current,      \* the message under construction
          codeLang,     \* -1, or in a code block the length of its language
          messages      \* the messages made

splitVars == <<rest, current, codeLang, messages>>

Blank == [size |-> 0, marks |-> 0]
InCode == codeLang >= 0
Reopened(lang) == IF lang >= 0 THEN [size |-> 4 + lang, marks |-> 1] ELSE Blank
Trimmed(m) == [m EXCEPT !.size = @ - 1]
TextSize(lines) == FoldLeft(LAMBDA n, l : n + l.size + 1, 0, lines)

\* A text that fits is sent as it is; an empty one has no lines.
SplitInit ==
  /\ rest \in BoundedSeq(LineKinds, MaxLines) /\ TextSize(rest) > MaxLen
  /\ current = Blank /\ codeLang = -1 /\ messages = <<>>

\* The message is full: an open block is closed in it and reopened in the next,
\* unless the line that does not fit is a fence.
FlushedBefore(line) ==
  IF current.size + line.size + 1 <= MaxLen \/ current.size = 0
  THEN [cur |-> current, out |-> messages]
  ELSE LET cut == InCode /\ ~line.fence
           closed == IF cut THEN [size |-> current.size + 4, marks |-> current.marks + 1]
                            ELSE current
       IN [cur |-> IF cut THEN Reopened(codeLang) ELSE Blank,
           out |-> Append(messages, Trimmed(closed))]

LangAfter(line) ==
  CASE ~line.fence -> codeLang
    [] line.fence /\ InCode -> -1
    [] line.fence /\ ~InCode -> line.size - 3

\* A plausible bug: no room is kept for the fence that closes a piece.
PiecesWithoutMargin(m, lang) ==
  LET eff == MaxLen
      n == (m.size + eff - 1) \div eff
      tail == m.size - (n - 1) * eff
      kept == IF tail = 1 THEN n - 1 ELSE n
  IN [i \in 1..kept |->
        LET size == IF i < n THEN eff ELSE tail
            marks == IF i = 1 THEN m.marks ELSE 0
        IN IF lang >= 0 /\ i < kept
           THEN [size |-> size + 4, marks |-> marks + 1]
           ELSE [size |-> size, marks |-> marks]]

\* A single line longer than a message is cut every eff characters; in a block
\* every piece but the last is closed.  A last piece of one newline is dropped,
\* and the ``` of the message is at its beginning.
Pieces(m, lang) ==
  LET eff == IF lang >= 0 THEN MaxLen - 10 ELSE MaxLen
      n == (m.size + eff - 1) \div eff
      tail == m.size - (n - 1) * eff
      kept == IF tail = 1 THEN n - 1 ELSE n
  IN [i \in 1..kept |->
        LET size == IF i < n THEN eff ELSE tail
            marks == IF i = 1 THEN m.marks ELSE 0
        IN IF lang >= 0 /\ i < kept
           THEN [size |-> size + 4, marks |-> marks + 1]
           ELSE [size |-> size, marks |-> marks]]

TakeLine ==
  /\ rest # <<>>
  /\ LET line == Head(rest)
         flushed == FlushedBefore(line)
         lang == LangAfter(line)
         longer == [size |-> flushed.cur.size + line.size + 1,
                    marks |-> flushed.cur.marks + IF line.fence THEN 1 ELSE 0]
     IN /\ rest' = Tail(rest)
        /\ codeLang' = lang
        /\ IF longer.size > MaxLen
           THEN /\ messages' = flushed.out \o Pieces(longer, lang)
                /\ current' = Reopened(lang)
           ELSE /\ messages' = flushed.out
                /\ current' = longer

LastMessage ==
  /\ rest = <<>> /\ current # Blank
  /\ messages' = Append(messages, Trimmed(current))
  /\ current' = Blank
  /\ UNCHANGED <<rest, codeLang>>

SplitNext == TakeLine \/ LastMessage
SplitSpec == SplitInit /\ [][SplitNext]_splitVars

-----------------------------------------------------------------------------
\* No message passes max_len by more than the three marks that close a block cut
\* when it is full: at the default of 1900 every one is under Discord's 2000.
MessagesNearTheLimit ==
  \A m \in Range(messages) : m.size <= MaxLen + 3
=============================================================================
