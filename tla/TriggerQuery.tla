----------------------------- MODULE TriggerQuery -----------------------------
(***************************************************************************)
(* Which files Watchman reports to a handler: newTriggerConfig resolves    *)
(* the journal, success and failure directory against the handler's path   *)
(* (package relpath) and makeQueryExpression builds the query.  The files  *)
(* that the handler itself writes must not come back as changes.           *)
(*                                                                         *)
(* A path is a sequence of elements that is absolute or not; Watchman sees *)
(* files below the handler's path.                                         *)
(***************************************************************************)
EXTENDS Integers, Sequences

Seqs == INSTANCE SequencesExt

CONSTANTS
  Handlers,   \* configurations
  Files       \* files below a handler's path: [dir, hidden, size]

\* The program sees a directory by its elements, Watchman the files of a tree
\* by where they really are.
ASSUME TriggerAssumption ==
  LET Directories == [abs : BOOLEAN, elems : Seq(STRING)] IN
  /\ Handlers \subseteq [path : Directories, dirs : SUBSET Directories,
                        recursive : BOOLEAN, includeHidden : BOOLEAN,
                        minSize : Nat, maxSize : Nat]
  /\ Files \subseteq [dir : Seq(STRING \ {".", ".."}), hidden : BOOLEAN, size : Nat]

VARIABLES
  handler,    \* the handler's configuration
  query       \* its query expression, a set of conditions

triggerVars == <<handler, query>>

NoQuery == {"none"}

TriggerInit(h) == handler = h /\ query = NoQuery

-----------------------------------------------------------------------------
(* Package relpath and path/filepath                                       *)

\* filepath.Clean: "." goes, ".." takes an element away, if there is one to
\* take, and is kept at the beginning of a relative path.
CleanElem(abs, elem, done) ==
  CASE elem = "." -> done
    [] elem = ".." /\ done # << >> /\ Seqs!Last(done) # ".." -> Seqs!Front(done)
    [] elem = ".." /\ done = << >> /\ abs -> done
    [] OTHER -> Append(done, elem)

Clean(path) ==
  LET done[n \in 0 .. Len(path.elems)] ==
        IF n = 0 THEN << >> ELSE CleanElem(path.abs, path.elems[n], done[n - 1])
  IN [path EXCEPT !.elems = done[Len(path.elems)]]

\* filepath.Join
Join(base, path) == Clean([base EXCEPT !.elems = @ \o path.elems])

\* filepath.Rel of clean paths; "." if they are the same.
Rel(base, targ) ==
  LET same == Len(Seqs!LongestCommonPrefix({base.elems, targ.elems}))
      up == [n \in 1 .. Len(base.elems) - same |-> ".."]
      rel == up \o SubSeq(targ.elems, same + 1, Len(targ.elems))
  IN IF rel = << >> THEN <<".">> ELSE rel

\* Mutant: absolute paths are joined to the base too.
ResolveJoining(base, path) ==
  Rel(Clean(base), Join(Clean(base), path))

\* Resolve: RelativeElems
Resolve(base, path) ==
  Rel(Clean(base), IF path.abs THEN Clean(path) ELSE Join(Clean(base), path))

Contained(rel) == Len(rel) > 0 /\ \A n \in DOMAIN rel : rel[n] # ".."

-----------------------------------------------------------------------------
(* The query                                                               *)

\* An absolute path has no place below a relative one: filepath.Rel fails.
Unresolvable(h) == ~h.path.abs /\ \E path \in h.dirs : path.abs

ignoreDirs(h) == {rel \in {Resolve(h.path, path) : path \in h.dirs} : Contained(rel)}

makeQueryExpression(h) ==
  (IF h.recursive THEN {} ELSE {<<"top">>})
  \cup {<<"not dirname", rel>> : rel \in ignoreDirs(h)}
  \cup (IF h.includeHidden THEN {} ELSE {<<"not hidden">>})
  \cup (IF h.minSize > 0 THEN {<<"size ge", h.minSize>>} ELSE {})
  \cup (IF h.maxSize > 0 THEN {<<"size le", h.maxSize>>} ELSE {})

newTriggerConfig ==
  /\ query = NoQuery /\ ~Unresolvable(handler)
  /\ query' = makeQueryExpression(handler)
  /\ UNCHANGED handler

\* Watchman: dirname is true of files anywhere below the directory.
Holds(term, f) ==
  CASE term[1] = "top"         -> f.dir = << >>
    [] term[1] = "not dirname" -> ~Seqs!IsPrefix(term[2], f.dir)
    [] term[1] = "not hidden"  -> ~f.hidden
    [] term[1] = "size ge"     -> f.size >= term[2]
    [] term[1] = "size le"     -> f.size <= term[2]

Reported(f) == query # NoQuery /\ \A term \in query : Holds(term, f)

TriggerNext == newTriggerConfig

TriggerSpec == (\E h \in Handlers : TriggerInit(h)) /\ [][TriggerNext]_triggerVars

-----------------------------------------------------------------------------
(* Properties                                                              *)

\* Where a walk through the tree, one element after the other, leads to.
Place(start, path) ==
  Clean([abs |-> start.abs, elems |-> (IF path.abs THEN << >> ELSE start.elems) \o path.elems])

\* The directories that the handler writes to, as seen from its path.
OwnDirs(h) ==
  LET root == Place(h.path, [abs |-> FALSE, elems |-> << >>]).elems
      dirs == {Place(h.path, path).elems : path \in h.dirs}
  IN {SubSeq(d, Len(root) + 1, Len(d)) : d \in {d \in dirs : Seqs!IsStrictPrefix(root, d)}}

\* "Observe input directory recursively (excluding the infrastructure
\* directories)": the query is true of exactly the files that the handler's
\* configuration asks for, and of none that the handler writes itself, in
\* whatever way these directories are written in the configuration.  A
\* directory that is the handler's path or above it cannot be excluded.
NoFeedback ==
  query # NoQuery =>
    LET own == OwnDirs(handler) IN
    \A f \in Files :
      Reported(f) <=>
        /\ ~ \E d \in own : Seqs!IsPrefix(d, f.dir)
        /\ handler.recursive \/ f.dir = << >>
        /\ handler.includeHidden \/ ~f.hidden
        /\ f.size >= handler.minSize
        /\ handler.maxSize = 0 \/ f.size <= handler.maxSize
=============================================================================
