------------------------------ MODULE LogFile --------------------------------
(***************************************************************************)
(* The rotating log file: writes, rotation with renames that can fail or   *)
(* be cut short by a crash, a reopen that fails and is tried again, Clear, *)
(* a truncate by another process, and a log directory that is removed      *)
(* under the open descriptor.  A line is its number; a file is the         *)
(* sequence of its lines, position 0 the current one, 1..MaxFiles the      *)
(* rotated ones.                                                           *)
(***************************************************************************)
EXTENDS Naturals, Sequences

CONSTANTS
  MaxFiles,      \* rotated files kept
  MaxSize,       \* lines that fit into a file
  MaxLines,      \* bound: lines written
  MaxRemovals    \* bound: removals of the log directory

ASSUME LogAssumption ==
  MaxFiles \in Nat \ {0} /\ MaxSize \in Nat \ {0} /\ {MaxLines, MaxRemovals} \subseteq Nat

VARIABLES
  files,     \* 0..MaxFiles -> lines
  desc,      \* Writer.f: "open", "ghost" (its file has no name any more), "nil";
             \* "closed" after Close
  ghost,     \* size of the file behind a ghost
  dir,       \* whether the log directory exists
  lines,     \* lines written so far
  removals,
  lost       \* history: lines refused, cleared on request, removed with their
             \* directory or in the oldest file when a rotation began

logVars == <<files, desc, ghost, dir, lines, removals, lost>>

Positions == 0..MaxFiles
Content(f) == {f[i] : i \in DOMAIN f}
AllLines == UNION {Content(files[p]) : p \in Positions}

LogInit ==
  /\ files = [p \in Positions |-> <<>>] /\ desc = "open" /\ ghost = 0
  /\ dir = TRUE /\ lines = 0 /\ removals = 0 /\ lost = {}

\* Mutant: the current file is renamed over the newest rotated one.
ShiftedOver(k) ==
  [p \in Positions |->
     IF k <= MaxFiles THEN files[p]
     ELSE IF p = 0 THEN <<>> ELSE IF p = 1 THEN files[0] ELSE files[p]]

\* rotateLocked: the files after k steps; the first removes the oldest, the last
\* renames the current one.
Shifted(k) ==
  LET m == MaxFiles - k + 1
  IN  [p \in Positions |->
         IF k = 0 \/ p < m THEN files[p]
         ELSE IF p = m THEN <<>> ELSE files[p - 1]]

Full == MaxFiles + 1

\* The line goes to the file the descriptor is open on.
Append1(fs, d, l, gone) ==
  /\ files' = IF d = "open" THEN [fs EXCEPT ![0] = Append(@, l)] ELSE fs
  /\ desc' = d
  /\ ghost' = IF d = "ghost" THEN ghost + 1 ELSE 0
  /\ lost' = lost \cup gone \cup (IF d = "open" THEN {} ELSE {l})

\* What the first step of a rotation removes.
OldestLines(k) == IF k = 0 THEN {} ELSE Content(files[MaxFiles])

\* ensureOpenLocked makes the directory and opens a file that is not open.
Reopened == IF desc = "nil" THEN "open" ELSE desc
DirThere == dir \/ desc = "nil"

Size == IF desc = "ghost" THEN ghost ELSE Len(files[0])
Fits == Size = 0 \/ Size + 1 <= MaxSize

\* Write: refused; into the file there is; after a rotation, of which a step may
\* fail, whereupon the old file is opened again.  The write itself may fail too.
Write ==
  /\ lines < MaxLines /\ lines' = lines + 1
  /\ \/ /\ desc \in {"nil", "closed"}
        /\ UNCHANGED <<files, desc, ghost, dir>> /\ lost' = lost \cup {lines'}
     \/ /\ desc # "closed" /\ Fits /\ dir' = DirThere
        /\ \/ Append1(files, Reopened, lines', {})
           \/ /\ desc' = Reopened /\ lost' = lost \cup {lines'}
              /\ UNCHANGED <<files, ghost>>
     \/ /\ desc # "closed" /\ ~Fits
        /\ \E k \in 0..Full :
             /\ k < Full => DirThere
             /\ \/ Append1(Shifted(k), "open", lines', OldestLines(k)) /\ dir' = TRUE
                \/ /\ files' = Shifted(k) /\ ghost' = 0
                   /\ lost' = lost \cup OldestLines(k) \cup {lines'}
                   /\ \/ desc' = "nil" /\ dir' = DirThere
                      \/ desc' = "open" /\ dir' = TRUE
  /\ UNCHANGED removals

\* Close, at the end of the daemon: lines after it are refused.
CloseLog ==
  /\ desc # "closed" /\ desc' = "closed" /\ ghost' = 0
  /\ UNCHANGED <<files, dir, lines, removals, lost>>

\* Clear, which reopens a file that is not open, and Truncate from another process:
\* the current file only.
Clear ==
  /\ Size > 0
  /\ files' = [files EXCEPT ![0] = IF desc = "ghost" THEN @ ELSE <<>>]
  /\ ghost' = 0
  /\ lost' = lost \cup (Content(files[0]) \ Content(files'[0]))
  /\ desc' \in {desc, IF desc = "nil" THEN "open" ELSE desc}
  /\ UNCHANGED <<dir, lines, removals>>

RemoveDir ==
  /\ dir /\ removals < MaxRemovals /\ removals' = removals + 1
  /\ dir' = FALSE
  /\ ghost' = IF desc = "open" THEN Len(files[0]) ELSE 0
  /\ desc' = IF desc = "open" THEN "ghost" ELSE desc
  /\ files' = [p \in Positions |-> <<>>]
  /\ lost' = lost \cup AllLines
  /\ UNCHANGED lines

\* The daemon dies, in the middle of a rotation or not, and New opens the file.
LogCrash ==
  /\ \E k \in 0..Full :
       /\ k > 0 => Reopened = "open" /\ ~Fits
       /\ files' = Shifted(k) /\ lost' = lost \cup OldestLines(k)
  /\ desc' = "open" /\ ghost' = 0 /\ dir' = TRUE
  /\ UNCHANGED <<lines, removals>>

LogNext == Write \/ Clear \/ CloseLog \/ RemoveDir \/ LogCrash

LogSpec == LogInit /\ [][LogNext]_logVars

-----------------------------------------------------------------------------
\* Read from the oldest rotated file to the current one, the lines are in the
\* order they were written, none twice; and every line written is in one of them
\* unless it was refused, cleared, removed with the directory or in the oldest
\* file when a rotation began: not over a rename that failed half-way, a crash
\* between two renames or a directory that came back.
LogInOrder ==
  /\ \A p, q \in Positions : \A i \in DOMAIN files[p], j \in DOMAIN files[q] :
       (p > q \/ (p = q /\ i < j)) => files[p][i] < files[q][j]
  /\ 1..lines \subseteq AllLines \cup lost
=============================================================================
