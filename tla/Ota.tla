-------------------------------- MODULE Ota ---------------------------------
(***************************************************************************)
(* Over-the-air update: the upload that handle_ota reads                   *)
(* (src/webserver.rs) and OtaSession (src/ota.rs), on a board with two app *)
(* slots and two copies of otadata.  Module HttpServer runs it.            *)
(*                                                                         *)
(* An image is a value; a slot holds a whole image or Torn, anything else. *)
(* CRC-32 is abstracted: it tells a slot that holds the image from one     *)
(* that does not.  Between two awaits of handle_ota the steps of the model *)
(* are those a power loss can separate.  External are the flash and the    *)
(* second-stage bootloader, which boots the slot of the highest valid      *)
(* sequence and, when that slot does not hold an application, the other.   *)
(***************************************************************************)
EXTENDS Integers

CONSTANTS Apps,        (* images the bootloader accepts                     *)
          Uploads,     (* images the client may send                        *)
          Torn,        (* what a slot holds that holds no image             *)
          SECTOR,      (* bytes of a flash sector                           *)
          Sizes,       (* sizes of the images in bytes                      *)
          MaxSeq       (* bounds the sequence numbers of a model            *)

ASSUME OtaAssumption == /\ SECTOR \in Nat \ {0}
                        /\ Sizes \subseteq Nat \ {0}
                        /\ MaxSeq \in Nat
                        /\ Torn \notin Apps \cup Uploads

Slot == {0, 1}          \* layout.count = 2: ota_0 and ota_1
Copy == {0, 1}          \* the two otadata sectors
Off  == 2               \* no slot is running

VARIABLES slot,      \* slot[s]: the image that app slot s holds
          seq,       \* seq[c]: the sequence of otadata copy c; 0: not valid
          running,   \* the slot that runs, or Off
          up         \* the OtaSession of webserver_task and its upload

otaVars == <<slot, seq, running, up>>

Content == Apps \cup Uploads \cup {Torn}

(* none: no upload; receiving: in the read loop; received: all bytes have  *)
(* arrived; verified: finish() may write otadata; erased: the sector of    *)
(* otadata is erased and not written; committed: the reboot is due.        *)
UploadState == {"none", "receiving", "received", "verified", "erased", "committed"}

NoUpload == [state |-> "none", image |-> Torn, intact |-> FALSE, size |-> 0,
             got |-> 0, fill |-> 0, written |-> 0, target |-> 0, seen |-> [c \in Copy |-> 0]]

SeqNumber == 0 .. MaxSeq + 2

OtaTypeOK ==
  /\ slot \in [Slot -> Content]
  /\ seq \in [Copy -> SeqNumber]
  /\ running \in Slot \cup {Off}
  /\ up \in [state : UploadState, image : Content, intact : BOOLEAN, size : Nat,
             got : Nat, fill : 0 .. SECTOR, written : Nat, target : Slot,
             seen : [Copy -> SeqNumber]]

(* A USB flash: an application in ota_0, nothing in ota_1, otadata blank.  *)
OtaInit == /\ slot \in {[s \in Slot |-> IF s = 0 THEN a ELSE Torn] : a \in Apps}
           /\ seq = [c \in Copy |-> 0]
           /\ running = 0
           /\ up = NoUpload

-----------------------------------------------------------------------------
(* OtaSession::begin                                                       *)

Higher(q) == IF q[0] > q[1] THEN q[0] ELSE q[1]

SeqToPart(n) == IF n = 0 THEN 0 ELSE (n - 1) % 2

(* The slot that otadata names: the one the bootloader tries first.        *)
Named(q) == SeqToPart(Higher(q))

(* Mutation: the target is the slot that otadata names.                    *)
TargetNamed(q) == Named(q)

TargetOf(q) == (Named(q) + 1) % 2

(* POST /api/ota with the first body bytes in the header segment, which    *)
(* never fill a sector.  intact: the body matches the CRC it advertises.   *)
Begin(image, intact, size, seed) ==
  /\ running # Off
  /\ up.state = "none"
  /\ Higher(seq) =< MaxSeq
  /\ seed < SECTOR /\ seed =< size
  /\ up' = [state |-> IF seed = size THEN "received" ELSE "receiving",
            image |-> image, intact |-> intact, size |-> size, got |-> seed,
            fill |-> seed, written |-> 0, target |-> TargetOf(seq), seen |-> seq]
  /\ UNCHANGED <<slot, seq, running>>

-----------------------------------------------------------------------------
(* The read loop of handle_ota and OtaSession::write                       *)

(* What the slot holds after a write that leaves `written` bytes in it.    *)
SlotAfter(written) ==
  IF written = up.size /\ up.intact THEN {up.image, Torn} ELSE {Torn}

Holds(content) == slot' = [slot EXCEPT ![up.target] = content]

(* Mutation: the tail of the image is not limited to the sector.           *)
WantTail == up.size - up.got

Want == IF SECTOR - up.fill < up.size - up.got THEN SECTOR - up.fill ELSE up.size - up.got

(* Mutation: the sector is written after every read.                       *)
FullAlways(n) == TRUE

Full(n) == up.fill + n = SECTOR

(* n bytes arrive and the sector is full, or is not.                       *)
Receive(n) ==
  /\ up.state = "receiving"
  /\ n \in 1 .. Want
  /\ LET done == IF up.got + n = up.size THEN "received" ELSE "receiving"
     IN IF Full(n)
        THEN /\ \E c \in SlotAfter(up.written + SECTOR) : Holds(c)
             /\ up' = [up EXCEPT !.state = done, !.got = @ + n, !.fill = 0,
                                 !.written = @ + SECTOR]
        ELSE /\ up' = [up EXCEPT !.state = done, !.got = @ + n, !.fill = @ + n]
             /\ UNCHANGED slot
  /\ UNCHANGED <<seq, running>>

(* The trailing partial sector.                                            *)
Flush ==
  /\ up.state = "received"
  /\ up.fill > 0
  /\ \E c \in SlotAfter(up.written + up.fill) : Holds(c)
  /\ up' = [up EXCEPT !.fill = 0, !.written = @ + up.fill]
  /\ UNCHANGED <<seq, running>>

(* The next thing the upload may do is to write a sector of the slot.      *)
Writing == \/ up.state = "receiving" /\ SECTOR - up.fill =< up.size - up.got
           \/ up.state = "received" /\ up.fill > 0

(* The read loop ends early: the client closes the connection, or the      *)
(* socket reports an error.                                                *)
ReadEnds ==
  /\ up.state = "receiving"
  /\ up' = NoUpload
  /\ UNCHANGED <<slot, seq, running>>

(* A write of a sector, a read in verify() or the write of otadata fails.  *)
FlashFails ==
  /\ Writing \/ up.state \in {"received", "verified", "erased"}
  /\ up' = NoUpload
  /\ \/ Writing /\ Holds(Torn)
     \/ UNCHANGED slot
  /\ UNCHANGED <<seq, running>>

-----------------------------------------------------------------------------
(* OtaSession::finish                                                      *)

(* Mutation: the slot is not read back.                                    *)
VerifyStream ==
  /\ up.state = "received"
  /\ up.fill = 0
  /\ up' = IF up.intact THEN [up EXCEPT !.state = "verified"] ELSE NoUpload
  /\ UNCHANGED <<slot, seq, running>>

(* The CRC of the stream and that of the slot, read back, are the one      *)
(* advertised; or the upload ends.                                         *)
Verify ==
  /\ up.state = "received"
  /\ up.fill = 0
  /\ up' = IF up.intact /\ slot[up.target] = up.image
           THEN [up EXCEPT !.state = "verified"]
           ELSE NoUpload
  /\ UNCHANGED <<slot, seq, running>>

(* Mutation: the sequence is only incremented.                             *)
NextSeqPlusOne == Higher(up.seen) + 1

(* The next sequence that maps to the target slot.                         *)
NextSeq == LET m == Higher(up.seen)
           IN IF SeqToPart(m + 1) = up.target THEN m + 1 ELSE m + 2

(* Mutation: the copy that is in force is the one that is rewritten.       *)
CopyInForce == IF up.seen[0] > up.seen[1] THEN 0 ELSE 1

CopyToWrite == IF up.seen[0] > up.seen[1] THEN 1 ELSE 0

EraseOtadata == /\ up.state = "verified"
                /\ seq' = [seq EXCEPT ![CopyToWrite] = 0]
                /\ up' = [up EXCEPT !.state = "erased"]
                /\ UNCHANGED <<slot, running>>

WriteOtadata == /\ up.state = "erased"
                /\ seq' = [seq EXCEPT ![CopyToWrite] = NextSeq]
                /\ up' = [up EXCEPT !.state = "committed"]
                /\ UNCHANGED <<slot, running>>

-----------------------------------------------------------------------------
(* The reboot that ends an update, a power loss, and the bootloader        *)

Stop == /\ running' = Off
        /\ up' = NoUpload

Reboot == /\ up.state = "committed"
          /\ Stop
          /\ UNCHANGED <<slot, seq>>

(* The sector being written when power fails is lost.                      *)
PowerLoss == /\ running # Off
             /\ Stop
             /\ \/ Writing /\ Holds(Torn)
                \/ UNCHANGED slot
             /\ UNCHANGED seq

Bootable(s) == slot[s] \in Apps

Boot == /\ running = Off
        /\ running' \in IF Bootable(Named(seq)) THEN {Named(seq)} ELSE {s \in Slot : Bootable(s)}
        /\ UNCHANGED <<slot, seq, up>>

-----------------------------------------------------------------------------
(* Whenever power fails, the slot that otadata names holds an application  *)
(* that was read back whole: an update never trades a working image for    *)
(* one that does not boot (ota.rs begin, finish; the order of its writes). *)
NamedSlotBoots == Bootable(Named(seq))

(* A running application is never overwritten (ota.rs:94).                 *)
RunningSlotKept == up.state # "none" => up.target # running

(* The bootloader's choice moves only when the sequence of a verified slot *)
(* is written, to that slot, and the highest sequence never decreases: a   *)
(* power loss between the erase and the write of otadata undoes nothing.   *)
ChoiceMovesForward ==
  [][/\ Higher(seq') >= Higher(seq)
     /\ Named(seq') # Named(seq) => WriteOtadata /\ Named(seq') = up.target]_otaVars

(* Every sector but the last is written whole and once, whatever the sizes *)
(* of the segments in which the body arrives (webserver.rs:164-204).       *)
SectorsWhole ==
  up.state # "none" =>
    /\ up.written + up.fill = up.got
    /\ up.written % SECTOR = 0 \/ up.written = up.size
=============================================================================
