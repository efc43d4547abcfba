--------------------------- MODULE MpFileProcess ---------------------------
(***************************************************************************)
(* MpFileProcess.run of python/mp_file_process.py: the main process deals  *)
(* the lines of a file to worker processes in turn, each worker writes its *)
(* results to a file of its own, and the main process merges these files   *)
(* once all workers are gone.                                              *)
(*                                                                         *)
(* A line is its number; what matters of its text is its kind: its result  *)
(* is "kept", or is empty or an exception, which leaves a placeholder      *)
(* ("skipped"), or has only blanks ("space"), or the line itself has only  *)
(* blanks ("blank").                                                       *)
(***************************************************************************)
EXTENDS Integers, Sequences

CONSTANTS
    NumProcesses,
    MaxLines,       \* bounds the length of the input
    Kinds,          \* the kinds of its lines
    PipeCapacity    \* lines that fit in the pipe of a SimpleQueue

ASSUME FileAssumption ==
    /\ NumProcesses \in Nat \ {0} /\ MaxLines \in Nat /\ PipeCapacity \in Nat \ {0}
    /\ Kinds \subseteq {"kept", "skipped", "space", "blank"}

Procs == 0 .. NumProcesses - 1
Pill == 0

VARIABLES
    kind,           \* the input file: the kind of each line
    main,           \* what the main process does
    read_lines,
    poisoned,       \* workers that were sent the pill
    queue,          \* the queue of each worker
    alive,          \* the worker processes that run
    temp,           \* the temporary output file of each worker
    turn, pos, closed,  \* merge: the next file, the lines read of each, those closed
    output_file,
    reporter        \* whether the reporter thread runs

fileVars == <<kind, main, read_lines, poisoned, queue, alive, temp, turn, pos, closed, output_file, reporter>>
merging == <<turn, pos, closed, output_file>>

FileTypeOK ==
    /\ kind \in Seq(Kinds)
    /\ main \in {"read", "poison", "join", "merge", "stop", "end"}
    /\ read_lines \in 0 .. Len(kind)
    /\ poisoned \in 0 .. NumProcesses
    /\ queue \in [Procs -> Seq(0 .. Len(kind))]
    /\ alive \in SUBSET Procs
    /\ temp \in [Procs -> Seq(1 .. Len(kind))]
    /\ turn \in Procs /\ pos \in [Procs -> Nat] /\ closed \in SUBSET Procs
    /\ output_file \in Seq(1 .. Len(kind))
    /\ reporter \in BOOLEAN

FileInit ==
    /\ kind \in UNION {[1 .. n -> Kinds] : n \in 0 .. MaxLines}
    /\ main = "read"
    /\ read_lines = 0
    /\ poisoned = 0
    /\ queue = [w \in Procs |-> <<>>]
    /\ alive = Procs
    /\ temp = [w \in Procs |-> <<>>]
    /\ turn = 0
    /\ pos = [w \in Procs |-> 0]
    /\ closed = {}
    /\ output_file = <<>>
    /\ reporter = TRUE

-----------------------------------------------------------------------------
(***************************************************************************)
(* The main process deals the lines and the pills.                         *)
(***************************************************************************)
\* SimpleQueue.put blocks while the pipe is full.
Put(w, line) ==
    /\ Len(queue[w]) < PipeCapacity
    /\ queue' = [queue EXCEPT ![w] = Append(@, line)]

\* q_idx is read_lines % num_processes.
Deal ==
    /\ main = "read"
    /\ read_lines < Len(kind)
    /\ Put(read_lines % NumProcesses, read_lines + 1)
    /\ read_lines' = read_lines + 1
    /\ UNCHANGED <<kind, main, poisoned, alive, temp, merging, reporter>>

AllRead ==
    /\ main = "read"
    /\ read_lines = Len(kind)
    /\ main' = "poison"
    /\ UNCHANGED <<kind, read_lines, poisoned, queue, alive, temp, merging, reporter>>

Poison ==
    /\ main = "poison"
    /\ IF poisoned < NumProcesses
         THEN Put(poisoned, Pill) /\ poisoned' = poisoned + 1 /\ main' = main
         ELSE main' = "join" /\ UNCHANGED <<queue, poisoned>>
    /\ UNCHANGED <<kind, read_lines, alive, temp, merging, reporter>>

Join ==
    /\ main = "join"
    /\ alive = {}
    /\ main' = "merge"
    /\ UNCHANGED <<kind, read_lines, poisoned, queue, alive, temp, merging, reporter>>

-----------------------------------------------------------------------------
(***************************************************************************)
(* mfpWorker.                                                              *)
(***************************************************************************)
IsPill(line) == line # Pill => kind[line] = "blank"

\* A line leaves one line in the temporary file, a placeholder if need be.
Process(w) ==
    /\ w \in alive
    /\ queue[w] # <<>>
    /\ ~IsPill(Head(queue[w]))
    /\ temp' = [temp EXCEPT ![w] = Append(@, Head(queue[w]))]
    /\ queue' = [queue EXCEPT ![w] = Tail(@)]
    /\ UNCHANGED <<kind, main, read_lines, poisoned, alive, merging, reporter>>

\* An empty line ends the worker, whoever sent it.
WorkerEnds(w) ==
    /\ w \in alive
    /\ queue[w] # <<>>
    /\ IsPill(Head(queue[w]))
    /\ queue' = [queue EXCEPT ![w] = Tail(@)]
    /\ alive' = alive \ {w}
    /\ UNCHANGED <<kind, main, read_lines, poisoned, temp, merging, reporter>>

-----------------------------------------------------------------------------
(***************************************************************************)
(* The merge: one line of each open file in turn.                          *)
(***************************************************************************)
AtEnd(w) == pos[w] < Len(temp[w]) => kind[temp[w][pos[w] + 1]] = "space"

\* Slip: a line without a result is passed over within its turn.
MergeLineEagerly(w) ==
    /\ turn = w /\ w \notin closed /\ ~AtEnd(w)
    /\ LET line == temp[w][pos[w] + 1] IN
       /\ output_file' = IF kind[line] = "kept" THEN Append(output_file, line) ELSE output_file
       /\ turn' = IF kind[line] = "kept" THEN (turn + 1) % NumProcesses ELSE turn
    /\ pos' = [pos EXCEPT ![w] = @ + 1]
    /\ UNCHANGED closed

\* The next line of an open file; placeholders are not written.
MergeLine(w) ==
    /\ turn = w /\ w \notin closed /\ ~AtEnd(w)
    /\ LET line == temp[w][pos[w] + 1] IN
       output_file' = IF kind[line] = "kept" THEN Append(output_file, line) ELSE output_file
    /\ turn' = (turn + 1) % NumProcesses
    /\ pos' = [pos EXCEPT ![w] = @ + 1]
    /\ UNCHANGED closed

\* The file is at its end, or at a line that strip() leaves empty.
MergeClose(w) ==
    /\ turn = w /\ w \notin closed /\ AtEnd(w)
    /\ closed' = closed \cup {w}
    /\ turn' = (turn + 1) % NumProcesses
    /\ UNCHANGED <<pos, output_file>>

MergeSkip(w) ==
    /\ turn = w /\ w \in closed /\ closed # Procs
    /\ turn' = (turn + 1) % NumProcesses
    /\ UNCHANGED <<pos, closed, output_file>>

Merge ==
    /\ main = "merge"
    /\ \E w \in Procs : MergeLine(w) \/ MergeClose(w) \/ MergeSkip(w)
    /\ UNCHANGED <<kind, main, read_lines, poisoned, queue, alive, temp, reporter>>

\* All files are closed: set stop.
Merged ==
    /\ main = "merge"
    /\ closed = Procs
    /\ main' = "stop"
    /\ UNCHANGED <<kind, read_lines, poisoned, queue, alive, temp, merging, reporter>>

\* The reporter wakes up from its sleep and sees stop.
ReporterEnds ==
    /\ main = "stop"
    /\ reporter
    /\ reporter' = FALSE
    /\ UNCHANGED <<kind, main, read_lines, poisoned, queue, alive, temp, merging>>

RunReturns ==
    /\ main = "stop"
    /\ ~reporter
    /\ main' = "end"
    /\ UNCHANGED <<kind, read_lines, poisoned, queue, alive, temp, merging, reporter>>

Main == Deal \/ AllRead \/ Poison \/ Join \/ Merge \/ Merged \/ RunReturns

FileNext == Main \/ ReporterEnds \/ \E w \in Procs : Process(w) \/ WorkerEnds(w)

FileSpec == FileInit /\ [][FileNext]_fileVars

-----------------------------------------------------------------------------
(***************************************************************************)
(* Properties.                                                             *)
(***************************************************************************)
\* What worker w has written to its file, and what is still in its queue.
Lines(w) == temp[w] \o queue[w]
Dealt(w) == {i \in 1 .. read_lines : (i - 1) % NumProcesses = w}

\* While no line is blank the lines dealt to a worker are in its file or on their way
\* there, in order, with the pill behind all of them; a worker is gone only when it has
\* done all its lines.
DealtInTurn ==
    /\ FileTypeOK
    /\ \A w \in Procs :
         LET s == Lines(w) IN
         /\ \A k, l \in 1 .. Len(s) : k < l /\ s[l] # Pill => s[k] # Pill /\ s[k] < s[l]
         /\ {s[k] : k \in 1 .. Len(s)} \ {Pill} = Dealt(w)
    /\ \A w \in Procs \ alive : queue[w] = <<>> /\ read_lines = Len(kind)

Kept == {i \in 1 .. Len(kind) : kind[i] = "kept"}
Written == {output_file[k] : k \in 1 .. Len(output_file)}

\* "The output is written to the output file line-by-line in the same order as
\* the input file. Empty strings are skipped."  At any time the output has the first of the
\* lines with a result, in their order, and at the end all of them.
OutputInOrder ==
    /\ \A k, l \in 1 .. Len(output_file) : k < l => output_file[k] < output_file[l]
    /\ Written \subseteq Kept
    /\ \A i \in Kept \ Written : main \notin {"stop", "end"} /\ \A o \in Written : o < i

LinesInOrder == DealtInTurn /\ OutputInOrder

\* A worker that was sent the pill, and is not gone, has it as the last line of its queue.
PillsAreLast ==
    /\ main = "read" => poisoned = 0
    /\ main # "read" => read_lines = Len(kind)
    /\ main \in {"join", "merge", "stop", "end"} => poisoned = NumProcesses
    /\ main \in {"merge", "stop", "end"} => alive = {}
    /\ \A w \in Procs :
         /\ \A k, l \in 1 .. Len(queue[w]) : k < l => queue[w][k] # Pill
         /\ w >= poisoned => w \in alive /\ \A k \in 1 .. Len(queue[w]) : queue[w][k] # Pill
         /\ w < poisoned /\ w \in alive => queue[w] # <<>> /\ queue[w][Len(queue[w])] = Pill

\* The first m lines, and no others, were read from the temporary files; the file of the
\* next line is the one whose turn it is, and no file is closed before the last line.
MergedUpTo(m) ==
    /\ \A w \in Procs :
         /\ pos[w] <= Len(temp[w])
         /\ \A k \in 1 .. Len(temp[w]) : k <= pos[w] <=> temp[w][k] <= m
    /\ Written = {i \in Kept : i <= m}
    /\ m < Len(kind) => closed = {} /\ turn = m % NumProcesses

MergedInTurn ==
    /\ \E m \in 0 .. Len(kind) :
         MergedUpTo(m) /\ (main \notin {"merge", "stop", "end"} => m = 0)
    /\ main \in {"stop", "end"} => closed = Procs

\* Without blank lines and results, which the code takes for the pill or for the end of a file.
PlainKinds == Kinds \cap {"space", "blank"} = {}

FileInv == LinesInOrder /\ PillsAreLast /\ MergedInTurn
=============================================================================
