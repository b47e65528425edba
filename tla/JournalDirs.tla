----------------------------- MODULE JournalDirs -----------------------------
(***************************************************************************)
(* How tasks running in parallel obtain their places in the journal and in *)
(* the archive directories: journal.CreateTaskDir and MoveToArchive make   *)
(* the directory with waryio.EnsureRelDir, element by element, and then    *)
(* claim a name in it that nobody has, with mkdir or with renameat2 and    *)
(* RENAME_NOREPLACE.  Every system call is one action.  CreateTaskDir is   *)
(* called without the handler's mutex.                                     *)
(***************************************************************************)
EXTENDS Integers, FiniteSets

CONSTANTS
  Callers,      \* goroutines calling CreateTaskDir or MoveToArchive
  Movers,       \* those of them that call MoveToArchive
  Depth,        \* elements of the path; the base directory itself is "."
  FirstName,    \* time and original name: the same for all files of one name
                \* within a second
  OtherNames,   \* names with a random suffix
  IOErrors,     \* may system calls fail for reasons of their own?
  UserEntries   \* may users make files and directories on the path?

Names == {FirstName} \cup OtherNames
Levels == 1 .. Depth

ASSUME DirsAssumption ==
  /\ Movers \subseteq Callers /\ Depth \in Nat \ {0}
  /\ FirstName \notin OtherNames
  /\ IOErrors \in BOOLEAN /\ UserEntries \in BOOLEAN

VARIABLES
  where,     \* what relpath makes of the configured path: "below" the handler's
             \* directory, "elsewhere" or "unresolvable"
  elem,      \* what each element of the path is: "none", "dir" or "file"
  taken,     \* names in the directory and who made them: <<name, caller>>
  sources,   \* movers whose source file is still there
  slipped,   \* history: callers that went past an element that is no directory
  pc, level, candidate

vars == <<where, elem, taken, sources, slipped, pc, level, candidate>>

TypeOK ==
  /\ where \in {"below", "elsewhere", "unresolvable"}
  /\ elem \in [Levels -> {"none", "dir", "file"}]
  /\ taken \subseteq Names \X Callers
  /\ sources \subseteq Movers
  /\ slipped \subseteq Callers
  /\ pc \in [Callers -> {"resolve", "stat", "mkdir", "exists", "claim", "ok", "error"}]
  /\ level \in [Callers -> 1 .. Depth + 1]
  /\ candidate \in [Callers -> Names]

\* The directory in which element l is looked up.  The base directory is
\* always there.
ParentOK(l) == l > 1 => elem[l - 1] = "dir"

Init ==
  /\ where \in {"below", "elsewhere", "unresolvable"}
  /\ elem \in [Levels -> {"none", "dir", "file"}]
  /\ \A l \in Levels : elem[l] # "none" => ParentOK(l)
  /\ taken = {} /\ sources = Movers /\ slipped = {}
  /\ pc = [c \in Callers |-> "resolve"]
  /\ level = [c \in Callers |-> 1]
  /\ candidate = [c \in Callers |-> FirstName]

Taken(n) == \E c \in Callers : <<n, c>> \in taken

\* Users make a file or a directory.  They do not take directories of the
\* path away again, and pruning removes entries of the last one only.
UserMakes(l) ==
  /\ UserEntries
  /\ elem[l] = "none" /\ ParentOK(l)
  /\ elem' \in {[elem EXCEPT ![l] = k] : k \in {"dir", "file"}}
  /\ UNCHANGED <<where, taken, sources, slipped, pc, level, candidate>>

-----------------------------------------------------------------------------
(* EnsureRelDir                                                            *)

GoTo(c, l) == pc' = [pc EXCEPT ![c] = l]

\* Outside of the base directory nothing is made and nothing is an error.
Resolve(c) ==
  /\ pc[c] = "resolve"
  /\ GoTo(c, CASE where = "below" -> "stat"
               [] where = "elsewhere" -> "claim"
               [] where = "unresolvable" -> "error")
  /\ UNCHANGED <<where, elem, taken, sources, slipped, level, candidate>>

\* The next element of the path, or the end of EnsureRelDir's loop.
Advance(c) ==
  /\ level' = [level EXCEPT ![c] = @ + 1]
  /\ GoTo(c, IF level[c] < Depth THEN "stat" ELSE "claim")

\* Mutant: whatever Stat says, there is no need for Mkdir.
StatSkips(c) ==
  /\ pc[c] = "stat" /\ Advance(c)
  /\ UNCHANGED <<where, elem, taken, sources, slipped, candidate>>

\* Stat tells a directory from a file (ENOTDIR is returned); if it fails,
\* for whatever reason, Mkdir is tried.
Stat(c) ==
  /\ pc[c] = "stat"
  /\ \/ elem[level[c]] = "dir" /\ Advance(c)
     \/ elem[level[c]] = "file" /\ GoTo(c, "error") /\ UNCHANGED level
     \/ (elem[level[c]] = "none" \/ IOErrors) /\ GoTo(c, "mkdir") /\ UNCHANGED level
  /\ UNCHANGED <<where, elem, taken, sources, slipped, candidate>>

\* Mkdir makes the element, says EEXIST, or fails: with ENOTDIR below a file,
\* or for reasons of its own.
Mkdir(c) ==
  /\ pc[c] = "mkdir"
  /\ \/ /\ elem[level[c]] = "none" /\ ParentOK(level[c])
        /\ elem' = [elem EXCEPT ![level[c]] = "dir"]
        /\ Advance(c)
     \/ /\ elem[level[c]] # "none" /\ GoTo(c, "exists")
        /\ UNCHANGED <<elem, level>>
     \/ /\ ~ParentOK(level[c]) \/ IOErrors
        /\ GoTo(c, "error")
        /\ UNCHANGED <<elem, level>>
  /\ UNCHANGED <<where, taken, sources, slipped, candidate>>

\* Mkdir said EEXIST.  The code returns the error if Stat finds a directory,
\* and goes on with the next element if Stat finds a file or fails.
AlreadyExists(c) ==
  /\ pc[c] = "exists"
  /\ \/ /\ elem[level[c]] = "dir" /\ GoTo(c, "error")
        /\ UNCHANGED <<level, slipped>>
     \/ /\ elem[level[c]] # "dir" \/ IOErrors
        /\ Advance(c)
        /\ slipped' = IF elem[level[c]] # "dir" THEN slipped \cup {c} ELSE slipped
  /\ UNCHANGED <<where, elem, taken, sources, candidate>>

-----------------------------------------------------------------------------
(* MakeAvailableDir and RenameToAvailableName                              *)

\* The system call finds the directory and, for a move, the file.
Possible(c) == elem[Depth] = "dir" /\ (c \in Movers => c \in sources)

\* Mutant: rename without RENAME_NOREPLACE, mkdir replaced by MkdirAll.
ClaimReplacing(c) ==
  /\ pc[c] = "claim" /\ Possible(c)
  /\ taken' = {e \in taken : e[1] # candidate[c]} \cup {<<candidate[c], c>>}
  /\ sources' = sources \ {c}
  /\ GoTo(c, "ok")
  /\ UNCHANGED <<where, elem, slipped, level, candidate>>

Claim(c) ==
  /\ pc[c] = "claim" /\ Possible(c)
  /\ ~Taken(candidate[c])
  /\ taken' = taken \cup {<<candidate[c], c>>}
  /\ sources' = sources \ {c}
  /\ GoTo(c, "ok")
  /\ UNCHANGED <<where, elem, slipped, level, candidate>>

\* EEXIST: another name from the generator.
NextName(c) ==
  /\ pc[c] = "claim" /\ Possible(c)
  /\ Taken(candidate[c])
  /\ candidate' \in {[candidate EXCEPT ![c] = n] : n \in OtherNames}
  /\ UNCHANGED <<where, elem, taken, sources, slipped, pc, level>>

\* Any error but EEXIST is returned: a user took the file away (ENOENT),
\* there is no directory (ENOENT, ENOTDIR), or the call fails.
ClaimFails(c) ==
  /\ pc[c] = "claim" /\ (~Possible(c) \/ IOErrors)
  /\ GoTo(c, "error")
  /\ UNCHANGED <<where, elem, taken, sources, slipped, level, candidate>>

SourceVanishes(c) ==
  /\ c \in sources /\ pc[c] # "ok"
  /\ sources' = sources \ {c}
  /\ UNCHANGED <<where, elem, taken, slipped, pc, level, candidate>>

-----------------------------------------------------------------------------
Next ==
  \/ \E c \in Callers :
       \/ Resolve(c) \/ Stat(c) \/ Mkdir(c) \/ AlreadyExists(c)
       \/ Claim(c) \/ NextName(c) \/ ClaimFails(c) \/ SourceVanishes(c)
  \/ \E l \in Levels : UserMakes(l)

Spec == Init /\ [][Next]_vars

-----------------------------------------------------------------------------
(* Properties                                                              *)

\* A caller that was successful has a name of its own, for good: no other
\* caller reused or replaced it, although all of them begin with the same
\* candidate.
OwnPlace ==
  /\ \A c \in Callers : pc[c] = "ok" => \E n \in Names : <<n, c>> \in taken
  /\ \A d, e \in taken : d[1] = e[1] => d = e

\* What a success of EnsureRelDir below the base directory is worth, however
\* callers and users interleave and whichever calls fail: the whole path
\* exists, and every element of it is a directory except perhaps the last,
\* which may be a file that appeared between Stat and Mkdir.  A caller that
\* met a file further up has not come through.  And whoever got a name got it
\* in a directory.
PathExists ==
  \A c \in Callers :
    /\ pc[c] = "claim" /\ where = "below" =>
         /\ \A l \in Levels : elem[l] = "dir" \/ (l = Depth /\ elem[l] = "file")
         /\ c \notin slipped => elem[Depth] = "dir"
    /\ pc[c] = "ok" => elem[Depth] = "dir"

\* The comment in EnsureRelDir: "The directory may have been created
\* concurrently."  Being overtaken by another caller is not an error: with
\* nothing but directories on the path and no failing calls a task gets its
\* directory.
OvertakenIsFine ==
  where = "below" /\ ~IOErrors /\ (\A l \in Levels : elem[l] # "file") =>
    \A c \in Callers \ Movers : pc[c] # "error"
=============================================================================
