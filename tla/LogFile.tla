------------------------------ MODULE LogFile ------------------------------
(***************************************************************************)
(* The node's log (internal/nodelog) and the operator who reads it with    *)
(* `logs [app|xray] -f` (internal/commands/logs.go).  The daemon appends   *)
(* lines and, every tick, cuts a log grown past maxBytes down to its most  *)
(* recent half, in place: it truncates the file and writes the half back.  *)
(* The follower is another process.  It shares nothing with the daemon but *)
(* the file, which it polls by size and reads from an offset.              *)
(*                                                                         *)
(* A line is LineLen units, the last of which ends it; its tag (app, xray) *)
(* is in the first.  Lines are numbered in the order they are written.     *)
(***************************************************************************)
EXTENDS Integers, Sequences, FiniteSets, SequencesExt

CONSTANTS
  MaxBytes,  \* maxLogBytes, in units
  LineLen,   \* units of a line
  logsTail,  \* lines `logs` prints before it follows
  MaxLines   \* bound: lines written

\* The half that is kept is longer than a line.
ASSUME SizeAssumption ==
  /\ LineLen \in Nat \ {0, 1} /\ logsTail \in Nat \ {0} /\ MaxLines \in Nat
  /\ MaxBytes \in Nat /\ MaxBytes \div 2 > LineLen

Src == {"app", "xray"}
Filter == Src \cup {"any"}
Unit == [line : 1..MaxLines, part : 1..LineLen, src : Src]

VARIABLES
  created,   \* the log file exists
  file,      \* its text
  written,   \* lines handed to the syncer
  up,        \* the daemon has the file open
  rotating,  \* Rotate holds the syncer's mutex, the file is truncated
  kept,      \* the tail it will write back
  pc,        \* the follower: "off", "stat", "read", "wait"
  filter,    \* its src argument
  offset, leftover,
  size,      \* what its last Stat said
  shown, streamed,  \* lines printTail and printStream printed since it (re)started
  \* history, read by the properties only
  gen,       \* truncations
  torn,      \* a write was cut short: the disk was full
  lost,      \* a rotation did not write back what it had cut
  base,      \* where the follower's stream starts
  seen       \* the truncations at that moment

logVars == <<created, file, written, up, rotating, kept, gen, torn, lost>>
followVars == <<pc, filter, offset, leftover, size, shown, streamed, base, seen>>
vars == <<created, file, written, up, rotating, kept, gen, torn, lost,
          pc, filter, offset, leftover, size, shown, streamed, base, seen>>

Init ==
  /\ created = FALSE /\ file = <<>> /\ written = 0
  /\ up = FALSE /\ rotating = FALSE /\ kept = <<>>
  /\ gen = 0 /\ torn = FALSE /\ lost = FALSE
  /\ pc = "off" /\ filter = "any" /\ offset = 0 /\ leftover = <<>> /\ size = 0
  /\ shown = <<>> /\ streamed = <<>> /\ base = 0 /\ seen = 0

---------------------------------------------------------------------------
(* Lines of a text.                                                        *)

EndsLine(u) == u.part = LineLen

\* The first n units of a line.
Units(n, line, src) == [p \in 1..n |-> [line |-> line, part |-> p, src |-> src]]

\* The positions of the newlines.
Newlines(text) == {i \in DOMAIN text : EndsLine(text[i])}

\* The tag is a field of a line's head: a fragment that starts later has none.
lineMatches(line, src) ==
  src = "any" \/ (line # <<>> /\ Head(line).part = 1 /\ Head(line).src = src)

\* A text unit by unit (recursive functions, for the proofs' sake): what
\* follows the last newline after each, and the matching lines by then.
Rests(text) ==
  LET rest[i \in 0..Len(text)] ==
        IF i = 0 THEN <<>>
        ELSE IF EndsLine(text[i]) THEN <<>> ELSE Append(rest[i - 1], text[i])
  IN  rest
LineAt(text, i) == Append(Rests(text)[i - 1], text[i])
Matches(text, src) ==
  LET lines[i \in 0..Len(text)] ==
        IF i = 0 THEN <<>>
        ELSE IF EndsLine(text[i]) /\ lineMatches(LineAt(text, i), src)
        THEN Append(lines[i - 1], LineAt(text, i)) ELSE lines[i - 1]
  IN  lines

\* What follows the last newline of a text, and its matching complete lines.
Rest(text) == Rests(text)[Len(text)]
Matching(text, src) == Matches(text, src)[Len(text)]

---------------------------------------------------------------------------
(* The daemon.                                                             *)

\* New: opens the file for appending, and creates it the first time.
New ==
  /\ ~up
  /\ up' = TRUE /\ created' = TRUE
  /\ UNCHANGED <<file, written, rotating, kept, gen, torn, lost, followVars>>

\* Write: one append under the mutex.  On a full disk only a part of the
\* line gets in; zap drops the error and the next line follows.
Write ==
  /\ up /\ ~rotating /\ written < MaxLines
  /\ written' = written + 1
  /\ \E src \in Src, n \in 0..LineLen :
       /\ n < LineLen => ~torn \* bound: the disk is full once
       /\ file' = file \o Units(n, written + 1, src)
       /\ torn' = (torn \/ n < LineLen)
  /\ UNCHANGED <<created, up, rotating, kept, gen, lost, followVars>>

\* Wrong: the partial first line is kept.
TrimmedNot(buf) == buf

\* The tail Rotate keeps of a text, from its first line boundary on.
Keep(text) == IF MaxBytes \div 2 > 0 THEN MaxBytes \div 2 ELSE Len(text) \div 2
Trimmed(buf) ==
  IF Newlines(buf) = {} THEN buf ELSE SubSeq(buf, Min(Newlines(buf)) + 1, Len(buf))
KeptTail(text) == Trimmed(SubSeq(text, Len(text) - Keep(text) + 1, Len(text)))

\* Rotate, up to the truncation.  (When reading the tail or truncating
\* fails it returns with the file as it was.)
RotateTruncate ==
  /\ up /\ ~rotating /\ Len(file) > MaxBytes
  /\ rotating' = TRUE /\ kept' = KeptTail(file)
  /\ file' = <<>> /\ gen' = gen + 1
  /\ UNCHANGED <<created, written, up, torn, lost, followVars>>

\* Its last step writes the tail back.  The write's error is ignored: on a
\* full disk a part of the tail is all that is left.
RotateRewrite ==
  /\ rotating
  /\ \E n \in 0..Len(kept) :
       /\ file' = file \o SubSeq(kept, 1, n)
       /\ lost' = (lost \/ n < Len(kept))
  /\ rotating' = FALSE /\ kept' = <<>>
  /\ UNCHANGED <<created, written, up, gen, torn, followVars>>

\* Wrong: a killed rotation goes on.
CloseMidway ==
  /\ up /\ up' = FALSE
  /\ UNCHANGED <<created, file, written, rotating, kept, gen, torn, lost, followVars>>

\* The daemon ends, in Close or by a kill; a kill may come inside Rotate.
Close ==
  /\ up
  /\ up' = FALSE /\ rotating' = FALSE /\ kept' = <<>>
  /\ lost' = (lost \/ kept # <<>>)
  /\ UNCHANGED <<created, file, written, gen, torn, followVars>>

---------------------------------------------------------------------------
(* The follower: cmdLogs with -f.  Without -f it is over after Follow, which *)
(* then only prints.                                                       *)

\* Wrong: the first matching lines instead of the last.
TailLinesFirst(data, src) ==
  LET m == Matching(data, src)
  IN IF Len(m) > logsTail THEN SubSeq(m, 1, logsTail) ELSE m

\* printTail: the last matching lines; what follows the last newline counts
\* as a line.
TailLines(data, src) ==
  LET rest == Rest(data)
      all == IF rest # <<>> /\ lineMatches(rest, src)
             THEN Append(Matching(data, src), rest) ELSE Matching(data, src)
  IN IF Len(all) > logsTail THEN SubSeq(all, Len(all) - logsTail + 1, Len(all)) ELSE all

\* Open and ReadFile.  Rotation never replaces the file, so both see the
\* same one.
Follow ==
  /\ pc = "off" /\ created
  /\ filter' \in Filter
  /\ shown' = TailLines(file, filter') /\ streamed' = <<>>
  /\ offset' = Len(file) /\ leftover' = <<>> /\ size' = 0
  /\ pc' = "stat"
  /\ base' = Len(file) /\ seen' = gen
  /\ UNCHANGED logVars

\* Wrong: only an empty file counts as rotated.
RestartsEmpty == file = <<>>

\* Stat, and the test for a file that has become shorter.
Restarts == Len(file) < offset
Stat ==
  /\ pc = "stat"
  /\ size' = Len(file)
  /\ offset' = IF Restarts THEN 0 ELSE offset
  /\ leftover' = IF Restarts THEN <<>> ELSE leftover
  /\ pc' = IF size' > offset' THEN "read" ELSE "wait"
  /\ base' = IF Restarts THEN 0 ELSE base
  /\ seen' = IF Restarts THEN gen ELSE seen
  /\ streamed' = IF Restarts THEN <<>> ELSE streamed
  /\ shown' = IF Restarts THEN <<>> ELSE shown
  /\ UNCHANGED <<filter, logVars>>

\* ReadAt and printStream.  The daemon may have rotated since Stat: the
\* chunk is what the file holds now between the offset and that size.
Chunk == SubSeq(file, offset + 1, IF size < Len(file) THEN size ELSE Len(file))
\* Wrong: an unfinished line is printed without its beginning.
ReadForgets ==
  /\ pc = "read"
  /\ streamed' = streamed \o Matching(Chunk, filter)
  /\ leftover' = Rest(Chunk)
  /\ offset' = offset + Len(Chunk)
  /\ pc' = "wait"
  /\ UNCHANGED <<filter, size, shown, base, seen, logVars>>
Read ==
  /\ pc = "read"
  /\ streamed' = streamed \o Matching(leftover \o Chunk, filter)
  /\ leftover' = Rest(leftover \o Chunk)
  /\ offset' = offset + Len(Chunk)
  /\ pc' = "wait"
  /\ UNCHANGED <<filter, size, shown, base, seen, logVars>>

\* The ticker, and the operator's q.
Poll ==
  /\ pc = "wait" /\ pc' = "stat"
  /\ UNCHANGED <<filter, offset, leftover, size, shown, streamed, base, seen, logVars>>
Quit ==
  /\ pc = "wait" /\ pc' = "off"
  /\ filter' = "any" /\ offset' = 0 /\ leftover' = <<>> /\ size' = 0
  /\ shown' = <<>> /\ streamed' = <<>> /\ base' = 0 /\ seen' = 0
  /\ UNCHANGED logVars

FollowStep == Stat \/ Read \/ Poll
Next == New \/ Write \/ RotateTruncate \/ RotateRewrite \/ Close
        \/ Follow \/ FollowStep \/ Quit

Spec == Init /\ [][Next]_vars

\* The follower's loop runs on its own ticker.
FairSpec == Spec /\ WF_vars(FollowStep)

---------------------------------------------------------------------------
(* Properties.                                                             *)

\* The type invariant.
TypeOK ==
  /\ {created, up, rotating, torn, lost} \subseteq BOOLEAN
  /\ written \in 0..MaxLines
  /\ \A t \in {file, kept, leftover} : Range(t) \subseteq Unit
  /\ pc \in {"off", "stat", "read", "wait"} /\ filter \in Filter
  /\ {offset, size, gen, base, seen} \subseteq Nat
  /\ rotating => up

\* "Recent history survives" a rotation (nodelog.go Rotate): unless a
\* rotation failed to write back what it had cut, the log, or during a
\* rotation the tail about to be written back, holds the newest lines, none
\* out of order.  Unless the disk was full it ends with the last line
\* written, skips none, starts at the start of one, and keeps the half but
\* for the line at its edge.
RecentKept ==
  LET log == IF rotating THEN kept ELSE file IN
  ~lost =>
    /\ \A i \in DOMAIN log \ {1} :
         \/ log[i].line = log[i - 1].line /\ log[i].part = log[i - 1].part + 1
         \/ /\ log[i].line > log[i - 1].line /\ log[i].part = 1
            /\ ~torn => EndsLine(log[i - 1]) /\ log[i].line = log[i - 1].line + 1
    /\ ~torn /\ written > 0 =>
         /\ log # <<>> /\ Head(log).part = 1
         /\ Last(log).line = written /\ EndsLine(Last(log))
         /\ IF gen = 0 THEN Head(log).line = 1 ELSE Len(log) >= MaxBytes \div 2 - LineLen

\* What the follower streams is what the file holds (cmdLogs, printStream):
\* as long as no rotation has gone unnoticed since it last started from the
\* top, the lines it printed are the matching complete lines between where
\* it started and its offset, however the chunks it read cut them, and the
\* unfinished line it carries over is the rest.
Followed ==
  pc # "off" /\ seen = gen =>
    LET text == SubSeq(file, base + 1, offset) IN
    /\ base <= offset /\ offset <= Len(file)
    /\ streamed = Matching(text, filter)
    /\ leftover = Rest(text)

\* The tail and the stream join (cmdLogs takes its offset from the data
\* printTail printed): an operator sees the last matching lines of the log
\* up to the offset, none twice and none left out between the two.
NoGap ==
  pc # "off" /\ seen = gen /\ ~torn /\ ~lost =>
    IsSuffix(shown \o streamed, Matching(SubSeq(file, 1, offset), filter))

\* A follower is never stuck behind a rotation: whatever it missed, once
\* the daemon is quiet its offset is the end of the file.
CatchesUp == <>[](pc # "off" => offset = Len(file))

============================================================================
