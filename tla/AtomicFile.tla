----------------------------- MODULE AtomicFile -----------------------------
(***************************************************************************)
(* How the console replaces a file on its SD card (app/atomic_file.cpp).   *)
(* FAT cannot rename over an existing file, so a new version is written to *)
(* `dest.part`, the old one is parked at `dest.old`, and the new one is    *)
(* renamed into place.  A file is the contents found under the three       *)
(* names; each operator is what one call of the file system does to it,    *)
(* and a crash can fall between any two.                                   *)
(***************************************************************************)
CONSTANT Absent     \* no file of that name

NoFile == [part |-> Absent, dest |-> Absent, old |-> Absent]

(* Where a replacement stands: the call it makes next. *)
Steps == {"write", "clear", "park", "swap", "tidy"}

(* The calls of writeFileAtomic and replaceFile, in order.  Once the old copy
   is cleared, a parked file tells that there was one to replace (hadDest). *)
HadDest(f) == f.old # Absent

AfterStep(f, step, new) ==
    CASE step = "write" -> [f EXCEPT !.part = new]
      [] step = "clear" -> [f EXCEPT !.old = Absent]
      [] step = "park"  -> [f EXCEPT !.old = f.dest, !.dest = Absent]
      [] step = "swap"  -> [f EXCEPT !.dest = f.part, !.part = Absent]
      [] step = "tidy"  -> [f EXCEPT !.old = Absent]

(* The call after `step`; "done" ends the replacement. *)
NextStep(f, step) ==
    CASE step = "write" -> "clear"
      [] step = "clear" -> "park"
      [] step = "park"  -> "swap"
      [] step = "swap"  -> IF HadDest(f) THEN "tidy" ELSE "done"
      [] step = "tidy"  -> "done"

(* A call that fails abandons the replacement: the new version is removed, and
   a file parked before a failing swap is put back. *)
AfterFailure(f, step) ==
    IF step = "swap" /\ HadDest(f)
    THEN [part |-> Absent, dest |-> f.old, old |-> Absent]
    ELSE [f EXCEPT !.part = Absent]

(* Faulty variant of Recovered: does nothing. *)
NotRecovered(f) == f

(* recoverReplacedFile *)
Recovered(f) ==
    IF f.dest = Absent /\ f.old # Absent
    THEN [f EXCEPT !.dest = f.old, !.old = Absent]
    ELSE f
=============================================================================
