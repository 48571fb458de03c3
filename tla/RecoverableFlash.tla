------------------------- MODULE RecoverableFlash -------------------------
(***************************************************************************)
(* What the boot scripts promise about the boot partition, with every      *)
(* script step, file name and manifest left out.  The partition holds a    *)
(* whole image or a torn one.  An unpatched image may be overwritten only  *)
(* while a whole copy of it is kept; the copy reaches the storage before   *)
(* the write is over, and it may be dropped only when the partition itself *)
(* holds the image again or nothing is owed.  Nothing is owed after a      *)
(* write by a script that has missed a failure, nor after an outage in the *)
(* middle of a write that takes the copy.  BootScripts implements this     *)
(* specification.                                                          *)
(***************************************************************************)
EXTENDS Naturals

CONSTANTS Bases,  \* the stock images a partition may hold (one per release)
          None,   \* no image, no copy
          Torn    \* an incomplete image

VARIABLES partition,  \* what the boot partition holds
          kept,       \* the bases of which a whole unpatched copy is kept
          safe,       \* those of them whose copy survives an outage
          owed        \* the base whose unpatched image was overwritten last

Image == [base : Bases, patched : BOOLEAN]

Stock(b) == [base |-> b, patched |-> FALSE]

Init ==
    /\ partition \in Image
    /\ kept = {}
    /\ safe = {}
    /\ owed = None

\* A copy of the present unpatched image is kept, others are lost or
\* replaced.
Copies ==
    /\ kept' \in SUBSET Bases
    /\ safe' \in SUBSET kept'
    /\ \A b \in kept' \ kept : partition = Stock(b)

\* The copies change, but never the one copy the partition depends on.
Rearrange ==
    /\ UNCHANGED <<partition, owed>>
    /\ Copies
    /\ owed \in kept \ kept' => partition = Stock(owed)
    /\ owed \in safe \ safe' => partition = Stock(owed)

\* A flash starts: from here to its end the partition is torn.
BeginWrite ==
    /\ partition' = Torn
    /\ \A b \in Bases : partition = Stock(b) => b \in kept
    /\ owed' = IF \E b \in Bases : partition = Stock(b)
               THEN partition.base ELSE owed
    /\ UNCHANGED <<kept, safe>>

EndWrite ==
    /\ partition = Torn
    /\ partition' \in Image
    /\ safe' = kept
    /\ UNCHANGED <<kept, owed>>

\* The power fails, in the middle of a write or when it is all but over.  Copies
\* that are not safe may be lost and older ones come back; the promise is lost
\* with the copy only during a write.
Outage ==
    /\ partition' # partition => partition = Torn /\ partition' \in Image
    /\ kept' \in SUBSET Bases
    /\ safe \subseteq kept'
    /\ safe' = kept'
    /\ owed' = IF partition = Torn /\ owed \notin kept' THEN None ELSE owed

\* A script that has missed a failure writes over the partition, or writes over
\* or drops a copy.
Forfeit ==
    /\ owed' = None
    /\ \/ partition' = Torn /\ UNCHANGED <<kept, safe>>
       \/ Copies /\ UNCHANGED partition

\* The user flashes an image with another tool: nothing is owed any more.
Replace ==
    /\ partition' \in Image
    /\ owed' = None
    /\ UNCHANGED <<kept, safe>>

Next ==
    \/ Replace
    \/ BeginWrite
    \/ EndWrite
    \/ Forfeit
    \/ Rearrange
    \/ Outage

vars == <<partition, kept, safe, owed>>

Spec == Init /\ [][Next]_vars
============================================================================
