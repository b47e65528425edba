------------------------------ MODULE UniqueName ------------------------------
(***************************************************************************)
(* Names for files that are moved: uniquename.Generator with its rule for  *)
(* shortening names, waryio.RenameToAvailableName going through its        *)
(* candidates, and the move-into command.  MoveToArchive uses the same     *)
(* generator for a single file, with the time in front.                    *)
(*                                                                         *)
(* A name is a sequence of graphemes, of which only the number of bytes    *)
(* and what the code looks for matter: dots, the " (hex)" of an earlier    *)
(* move, the digits of the time stamp and the new " (hex)".                *)
(***************************************************************************)
EXTENDS Integers, Sequences, FiniteSetsExt

CONSTANTS
  NameMax,        \* unix.NAME_MAX
  StampLength,    \* digits of the time in front of the name, with the space
  MaxExtension,   \* MaxExtensionLength
  ShortHex, LongHex, TimeSuffix,   \* bytes of what makes names unique
  NumSources      \* source files of move-into, at most

\* Numbers of bytes: "x" and "wide" are ordinary graphemes, "old" is the
\* " (hex)" of an earlier move, "s" belongs to the time stamp, the others
\* are the new " (hex)" or " (time)".
Bytes ==
  [x |-> 1, wide |-> 2, dot |-> 1, old |-> ShortHex, s |-> 1,
   short |-> ShortHex, long |-> LongHex, time |-> TimeSuffix]

Size(name) ==
  LET upTo[n \in 0 .. Len(name)] ==
        IF n = 0 THEN 0 ELSE upTo[n - 1] + Bytes[name[n]]
  IN upTo[Len(name)]

\* Names that a file may have.
FileNames ==
  {name \in UNION {[1 .. n -> {"x", "wide", "dot", "old"}] : n \in 1 .. NameMax} :
     Size(name) <= NameMax}

\* Who uses -rename may give any name.
NewNames(rename) ==
  IF rename THEN FileNames \cup {[n \in 1 .. NameMax + 1 |-> "x"]} ELSE FileNames

\* 18 digits, " (" and ")" around 16 digits, an extension of 9 bytes: 255 is
\* enough for all of them.
ASSUME NameAssumption ==
  /\ NameMax \in Nat /\ StampLength \in Nat /\ MaxExtension \in Nat \ {0}
  /\ ShortHex \in Nat \ {0} /\ LongHex \in Nat /\ TimeSuffix \in Nat
  /\ ShortHex <= LongHex /\ ShortHex <= TimeSuffix
  /\ StampLength + LongHex + (MaxExtension - 1) <= NameMax
  /\ TimeSuffix + (MaxExtension - 1) <= NameMax
  /\ NumSources \in Nat

VARIABLES
  step,        \* "new": the next file; "rename"; "done"; "error"
  left,        \* source files still to be moved
  stamped,     \* TimePrefixEnabled: MoveToArchive, but not move-into
  renaming,    \* -rename
  gen,         \* the Generator
  candidate,   \* path from the generator, its directory left out
  tries        \* candidates used for this file, at most 2 told apart

nameVars == <<step, left, stamped, renaming, gen, candidate, tries>>

NoGenerator ==
  [original |-> << >>, prefix |-> << >>, suffix |-> << >>, timeSuffix |-> FALSE]

\* MoveToArchive moves one file, move-into as many as it is given.
Calls ==
  {[stamped |-> TRUE, left |-> 1, renaming |-> FALSE]}
  \cup [stamped : {FALSE}, left : 1 .. NumSources, renaming : BOOLEAN]

NameInit(c) ==
  /\ step = "new" /\ stamped = c.stamped /\ left = c.left /\ renaming = c.renaming
  /\ gen = NoGenerator /\ candidate = << >> /\ tries = 0

-----------------------------------------------------------------------------
(* The generator                                                           *)

Stamp == IF stamped THEN [n \in 1 .. StampLength |-> "s"] ELSE << >>

\* filepath.Ext
Ext(name) ==
  LET dots == {n \in DOMAIN name : name[n] = "dot"}
  IN IF dots = {} THEN << >> ELSE SubSeq(name, Max(dots), Len(name))

\* Mutant: extensions of any length.
ExtensionAny(name) ==
  IF Len(Ext(name)) < Len(name) THEN Ext(name) ELSE << >>

\* The extension that is kept: a short one that is not the whole name.
Extension(name) ==
  IF Size(Ext(name)) < MaxExtension /\ Len(Ext(name)) < Len(name)
  THEN Ext(name) ELSE << >>

\* suffixRe removes what earlier moves have added.
WithoutOld(name) ==
  LET kept[n \in 0 .. Len(name)] ==
        IF n = 0 THEN << >>
        ELSE IF name[n] = "old" THEN kept[n - 1] ELSE Append(kept[n - 1], name[n])
  IN kept[Len(name)]

\* New
NewGenerator(name) ==
  LET ext == Extension(name)
  IN [original |-> name,
      prefix |-> WithoutOld(SubSeq(name, 1, Len(name) - Len(ext))),
      suffix |-> ext,
      timeSuffix |-> ~stamped]

\* Mutant: the extension is not counted.
combineWithMaxLenNoSuffix(prefix, middle, suffix, maxBytes) ==
  LET keep == {n \in 0 .. Len(prefix) :
                 Size(SubSeq(prefix, 1, n) \o middle) <= maxBytes}
  IN SubSeq(prefix, 1, Max(keep)) \o middle \o suffix

\* The end of the prefix is cut off first, then the beginning of the suffix.
combineWithMaxLen(prefix, middle, suffix, maxBytes) ==
  LET cut == {n \in 1 .. Len(prefix) :
                Size(SubSeq(prefix, 1, n)) + Size(middle) + Size(suffix) <= maxBytes}
      head == IF cut = {} THEN << >> ELSE SubSeq(prefix, 1, Max(cut))
      starts == {n \in 1 .. Len(suffix) :
                   Size(head) + Size(middle) + Size(SubSeq(suffix, n, Len(suffix)))
                     <= maxBytes}
      tail == IF starts = {} THEN << >> ELSE SubSeq(suffix, Min(starts), Len(suffix))
  IN head \o middle \o tail

\* What Next may return and what it leaves of the generator.
Candidates(g) ==
  IF g.original # << >>
  THEN {<<Stamp \o g.original, [g EXCEPT !.original = << >>]>>}
  ELSE {<<combineWithMaxLen(Stamp \o g.prefix, <<u>>, g.suffix, NameMax),
          [g EXCEPT !.timeSuffix = FALSE]>> :
          u \in IF g.timeSuffix THEN {"time"} ELSE {"short", "long"}}

-----------------------------------------------------------------------------
(* move-into and RenameToAvailableName                                     *)

Use(c) == candidate' = c[1] /\ gen' = c[2]

\* The next source file.
NewFile ==
  /\ step = "new" /\ left > 0 /\ ~(renaming /\ left > 1)
  /\ \E name \in NewNames(renaming) :
       \E c \in Candidates(NewGenerator(name)) : Use(c)
  /\ step' = "rename" /\ tries' = 1
  /\ UNCHANGED <<left, stamped, renaming>>

\* errRenameNotSupported, for the first of several files
RenameNotSupported ==
  /\ step = "new" /\ renaming /\ left > 1
  /\ step' = "error"
  /\ UNCHANGED <<left, stamped, renaming, gen, candidate, tries>>

AllMoved ==
  /\ step = "new" /\ left = 0
  /\ step' = "done"
  /\ UNCHANGED <<left, stamped, renaming, gen, candidate, tries>>

Renamed ==
  /\ step = "rename" /\ Size(candidate) <= NameMax
  /\ step' = "new" /\ left' = left - 1
  /\ gen' = NoGenerator /\ candidate' = << >> /\ tries' = 0
  /\ UNCHANGED <<stamped, renaming>>

\* EEXIST: somebody has a file of this name.
Exists ==
  /\ step = "rename" /\ Size(candidate) <= NameMax
  /\ \E c \in Candidates(gen) : Use(c)
  /\ tries' = 2
  /\ UNCHANGED <<step, left, stamped, renaming>>

\* ENAMETOOLONG, like all other errors, is returned.
NameTooLong ==
  /\ step = "rename" /\ Size(candidate) > NameMax
  /\ step' = "error"
  /\ UNCHANGED <<left, stamped, renaming, gen, candidate, tries>>

NameNext ==
  \/ NewFile \/ RenameNotSupported \/ AllMoved \/ Renamed \/ Exists \/ NameTooLong

NameSpec == (\E c \in Calls : NameInit(c)) /\ [][NameNext]_nameVars

-----------------------------------------------------------------------------
(* Properties                                                              *)

\* Only the first candidate, which is the file's own name behind the time,
\* can be too long.  A file that keeps its name without the time is always
\* moved, and no file is given up once a name turned out to be taken.
OnlyFirstTooLong ==
  step = "rename" /\ Size(candidate) > NameMax =>
    tries = 1 /\ (stamped \/ renaming)

\* However much of a name is cut off, it begins with the whole time stamp,
\* from which prune later reads the age, says what makes it unique, and ends
\* with the file's extension.
StampAndExtensionKept ==
  step = "rename" =>
    /\ \A n \in DOMAIN Stamp : n <= Len(candidate) /\ candidate[n] = "s"
    /\ tries = 2 =>
         /\ \E n \in DOMAIN candidate : candidate[n] \in {"short", "long", "time"}
         /\ SubSeq(candidate, Len(candidate) - Len(gen.suffix) + 1, Len(candidate))
              = gen.suffix
=============================================================================
