----------------------------- MODULE OtaProofs ------------------------------
(***************************************************************************)
(* The over-the-air update that webserver_task runs, for all images,       *)
(* sizes, sizes of a sector and numbers of updates.                        *)
(***************************************************************************)
EXTENDS HttpServer, TLAPS

(* The copies of otadata are those that begin() read, until finish()       *)
(* erases the lower one; the target is the slot that they do not name.     *)
SeqInv ==
  up.state # "none" =>
    /\ Higher(up.seen) =< MaxSeq
    /\ up.target = TargetOf(up.seen)
    /\ up.state \in {"receiving", "received", "verified"} => seq = up.seen
    /\ up.state = "erased" => seq = [up.seen EXCEPT ![CopyToWrite] = 0]

(* finish() gets to the writes of otadata with the image in the slot.      *)
ImageInv ==
  /\ up.state # "none" => up.image \in Uploads
  /\ up.state \in {"verified", "erased"} => slot[up.target] = up.image

(* The counters of an upload.                                              *)
CountInv ==
  up.state # "none" =>
    /\ up.fill < SECTOR
    /\ up.state = "receiving" => up.got < up.size
    /\ up.state # "receiving" => up.got = up.size

(* begin() never overwrites the slot that otadata names.                   *)
NamedKept == Uploads \subseteq Apps => NamedSlotBoots

OtaIInv == OtaTypeOK /\ SeqInv /\ ImageInv /\ CountInv /\ SectorsWhole /\ NamedKept

ConnTypeOK ==
  /\ conn \in {"listening", "reading", "commanding", "uploading", "replying", "closed"}
  /\ client \in {"none", "live", "finished", "silent", "aborted"}

IInv == OtaIInv /\ ConnTypeOK

(* What a step of webserver_task or of the board does to the update.       *)
OtaStep == \/ \E i \in Uploads, b \in BOOLEAN, n \in Sizes, k \in 0 .. SECTOR - 1 : Begin(i, b, n, k)
           \/ \E n \in 1 .. SECTOR : Receive(n)
           \/ Flush \/ ReadEnds \/ FlashFails
           \/ Verify \/ EraseOtadata \/ WriteOtadata
           \/ Reboot \/ PowerLoss \/ Boot
           \/ UNCHANGED otaVars

-----------------------------------------------------------------------------
(* Sequence numbers                                                        *)

LEMMA HigherProperties ==
  ASSUME NEW q \in [Copy -> SeqNumber]
  PROVE  /\ Higher(q) \in SeqNumber
         /\ q[0] =< Higher(q) /\ q[1] =< Higher(q)
         /\ Higher(q) = q[0] \/ Higher(q) = q[1]
BY OtaAssumption DEF Higher, SeqNumber, Copy

LEMMA SeqToPartType ==
  ASSUME NEW n \in Nat
  PROVE  SeqToPart(n) \in Slot
BY DEF SeqToPart, Slot

LEMMA TargetProperties ==
  ASSUME NEW q \in [Copy -> SeqNumber]
  PROVE  /\ Named(q) \in Slot /\ TargetOf(q) \in Slot
         /\ TargetOf(q) # Named(q)
<1>1. Higher(q) \in Nat
  BY HigherProperties, OtaAssumption DEF SeqNumber
<1>2. Named(q) \in Slot
  BY <1>1, SeqToPartType DEF Named
<1>. QED  BY <1>2 DEF TargetOf, Slot

(* The next sequence is the first above both copies that names the target. *)
LEMMA NextSeqProperties ==
  ASSUME up.seen \in [Copy -> SeqNumber], up.target \in Slot
  PROVE  /\ NextSeq \in Nat
         /\ NextSeq > Higher(up.seen) /\ NextSeq =< Higher(up.seen) + 2
         /\ SeqToPart(NextSeq) = up.target
<1>. DEFINE m == Higher(up.seen)
<1>1. m \in Nat
  BY HigherProperties, OtaAssumption DEF SeqNumber
<1>2. /\ SeqToPart(m + 1) = m % 2
      /\ SeqToPart(m + 2) = (m + 1) % 2
  BY <1>1 DEF SeqToPart
<1>3. CASE SeqToPart(m + 1) = up.target
  BY <1>1, <1>3 DEF NextSeq
<1>4. CASE SeqToPart(m + 1) # up.target
  <2>1. NextSeq = m + 2
    BY <1>4 DEF NextSeq
  <2>2. (m + 1) % 2 = up.target
    BY <1>1, <1>2, <1>4 DEF Slot
  <2>. QED  BY <1>1, <1>2, <2>1, <2>2
<1>. QED  BY <1>3, <1>4

(* The copy that finish() erases is not the one in force.                  *)
LEMMA EraseKeepsHigher ==
  ASSUME up.seen \in [Copy -> SeqNumber]
  PROVE  /\ CopyToWrite \in Copy
         /\ Higher([up.seen EXCEPT ![CopyToWrite] = 0]) = Higher(up.seen)
BY OtaAssumption DEF CopyToWrite, Higher, SeqNumber, Copy

(* The sequence that is written last is in force.                          *)
LEMMA WriteIsInForce ==
  ASSUME NEW q \in [Copy -> SeqNumber], NEW c \in Copy, NEW n \in Nat, n > Higher(q)
  PROVE  Higher([q EXCEPT ![c] = n]) = n
BY OtaAssumption DEF Higher, SeqNumber, Copy

-----------------------------------------------------------------------------
(* Sectors                                                                 *)

LEMMA NextSectorAligned ==
  ASSUME NEW a \in Nat, a % SECTOR = 0
  PROVE  (a + SECTOR) % SECTOR = 0
<1>. DEFINE b == SECTOR
            q == a \div b
            r == (a + b) % b
            p == (a + b) \div b
<1>1. b \in Nat /\ b > 0
  BY OtaAssumption
<1>2. q \in Int /\ a = b * q
  BY <1>1
<1>3. r \in Nat /\ p \in Int /\ r < b /\ a + b = b * p + r
  BY <1>1
<1>. HIDE DEF b, q, r, p
<1>4. b * (q + 1 - p) = r
  BY <1>1, <1>2, <1>3
<1>5. q + 1 - p = 0
  <2>1. ~(q + 1 - p >= 1)
    BY <1>1, <1>2, <1>3, <1>4
  <2>2. ~(q + 1 - p =< -1)
    BY <1>1, <1>2, <1>3, <1>4
  <2>. QED  BY <1>2, <1>3, <2>1, <2>2
<1>6. r = 0
  BY <1>1, <1>4, <1>5
<1>. QED  BY <1>6 DEF r, b
-----------------------------------------------------------------------------
(* Initial states, and the steps of an update                              *)

LEMMA InitEstablishes == Init => IInv
<1>. SUFFICES ASSUME Init PROVE IInv
  OBVIOUS
<1>. USE DEF Init, OtaInit, NoUpload
<1>1. OtaTypeOK
  <2>1. slot \in [Slot -> Content]
    BY DEF Content
  <2>2. seq \in [Copy -> SeqNumber]
    BY OtaAssumption DEF SeqNumber
  <2>3. running \in Slot \cup {Off}
    BY DEF Slot
  <2>4. up \in [state : UploadState, image : Content, intact : BOOLEAN, size : Nat,
                got : Nat, fill : 0 .. SECTOR, written : Nat, target : Slot,
                seen : [Copy -> SeqNumber]]
    BY OtaAssumption DEF UploadState, Content, Slot, SeqNumber
  <2>. QED  BY <2>1, <2>2, <2>3, <2>4 DEF OtaTypeOK
<1>2. SeqInv /\ ImageInv /\ CountInv /\ SectorsWhole
  BY DEF SeqInv, ImageInv, CountInv, SectorsWhole
<1>3. NamedKept
  <2>1. Named(seq) = 0
    BY DEF Named, Higher, SeqToPart, Copy
  <2>. QED  BY <2>1 DEF NamedKept, NamedSlotBoots, Bootable, Slot
<1>4. ConnTypeOK
  BY DEF ConnTypeOK
<1>. QED  BY <1>1, <1>2, <1>3, <1>4 DEF IInv, OtaIInv

(* Only the target slot is written, and it is not the one that otadata     *)
(* names until the upload is committed.                                    *)
LEMMA TargetNotNamed ==
  ASSUME OtaTypeOK, SeqInv, up.state \in {"receiving", "received", "verified"}
  PROVE  up.target \in Slot /\ up.target # Named(seq)
<1>1. up.state # "none" /\ seq \in [Copy -> SeqNumber] /\ up.target = TargetOf(seq)
  BY DEF SeqInv, OtaTypeOK
<1>. QED  BY <1>1, TargetProperties

LEMMA NamedUntouched ==
  ASSUME OtaTypeOK, SeqInv, NamedKept, up.state \in {"receiving", "received", "verified"},
         NEW c, Holds(c), UNCHANGED seq
  PROVE  NamedKept'
<1>1. up.target \in Slot /\ up.target # Named(seq) /\ Named(seq) \in Slot
  BY TargetNotNamed, TargetProperties DEF OtaTypeOK
<1>2. Named(seq)' = Named(seq)
  BY DEF Named, Higher
<1>3. slot'[Named(seq)] = slot[Named(seq)]
  BY <1>1 DEF Holds, OtaTypeOK
<1>. QED  BY <1>2, <1>3 DEF NamedKept, NamedSlotBoots, Bootable

LEMMA NamedFrame ==
  ASSUME NamedKept, UNCHANGED <<slot, seq>>
  PROVE  NamedKept'
BY DEF NamedKept, NamedSlotBoots, Bootable, Named, Higher

(* An upload that is given up leaves nothing to keep.                      *)
LEMMA GivenUp ==
  ASSUME OtaTypeOK, up' = NoUpload
  PROVE  /\ SeqInv' /\ ImageInv' /\ CountInv' /\ SectorsWhole'
         /\ up' \in [state : UploadState, image : Content, intact : BOOLEAN, size : Nat,
                     got : Nat, fill : 0 .. SECTOR, written : Nat, target : Slot,
                     seen : [Copy -> SeqNumber]]
<1>1. /\ Torn \in Content /\ 0 \in Slot /\ 0 \in SeqNumber /\ 0 \in 0 .. SECTOR
      /\ "none" \in UploadState
  BY OtaAssumption DEF Content, Slot, SeqNumber, UploadState
<1>. QED  BY <1>1 DEF NoUpload, SeqInv, ImageInv, CountInv, SectorsWhole

LEMMA Contents ==
  ASSUME OtaTypeOK
  PROVE  \A c \in Content : Holds(c) => slot' \in [Slot -> Content]
BY DEF OtaTypeOK, Holds

LEMMA BeginStep ==
  ASSUME OtaIInv, NEW i \in Uploads, NEW b \in BOOLEAN, NEW n \in Sizes,
         NEW k \in 0 .. SECTOR - 1, Begin(i, b, n, k)
  PROVE  OtaIInv'
<1>. USE DEF OtaIInv, Begin
<1>1. n \in Nat /\ n > 0 /\ SECTOR \in Nat /\ k \in Nat /\ k < SECTOR /\ k =< n
  BY OtaAssumption
<1>2. seq \in [Copy -> SeqNumber] /\ TargetOf(seq) \in Slot
  BY TargetProperties DEF OtaTypeOK
<1>3. OtaTypeOK'
  <2>1. up' \in [state : UploadState, image : Content, intact : BOOLEAN, size : Nat,
                 got : Nat, fill : 0 .. SECTOR, written : Nat, target : Slot,
                 seen : [Copy -> SeqNumber]]
    BY <1>1, <1>2 DEF UploadState, Content
  <2>. QED  BY <2>1 DEF OtaTypeOK
<1>4. SeqInv'
  BY <1>2 DEF SeqInv, TargetOf, Named, Higher
<1>5. ImageInv'
  BY DEF ImageInv
<1>6. CountInv'
  BY <1>1 DEF CountInv
<1>7. SectorsWhole'
  BY <1>1 DEF SectorsWhole
<1>8. NamedKept'
  BY NamedFrame
<1>. QED  BY <1>3, <1>4, <1>5, <1>6, <1>7, <1>8
LEMMA ReceiveStep ==
  ASSUME OtaIInv, NEW n \in 1 .. SECTOR, Receive(n)
  PROVE  OtaIInv'
<1>. USE DEF OtaIInv
<1>. DEFINE done == IF up.got + n = up.size THEN "received" ELSE "receiving"
<1>1. /\ up.state = "receiving" /\ UNCHANGED <<seq, running>>
      /\ done \in {"received", "receiving"}
      /\ done = "received" <=> up.got + n = up.size
  BY DEF Receive
<1>2. /\ SECTOR \in Nat /\ n \in Nat /\ n > 0
      /\ up.fill \in Nat /\ up.got \in Nat /\ up.size \in Nat /\ up.written \in Nat
      /\ n =< SECTOR - up.fill /\ n =< up.size - up.got
  BY OtaAssumption DEF Receive, Want, OtaTypeOK
<1>3. /\ up.written + up.fill = up.got /\ up.written % SECTOR = 0
      /\ up.got < up.size /\ up.fill < SECTOR
  BY <1>1, <1>2 DEF CountInv, SectorsWhole
<1>. HIDE DEF done
<1>4. CASE Full(n)
  <2>1. PICK c \in SlotAfter(up.written + SECTOR) : Holds(c)
    BY <1>4 DEF Receive
  <2>2. up' = [up EXCEPT !.state = done, !.got = @ + n, !.fill = 0, !.written = @ + SECTOR]
    BY <1>4 DEF Receive, done
  <2>3. c \in Content
    BY DEF SlotAfter, Content, OtaTypeOK
  <2>4. slot' \in [Slot -> Content]
    BY <2>1, <2>3, Contents
  <2>5. up' \in [state : UploadState, image : Content, intact : BOOLEAN, size : Nat,
                 got : Nat, fill : 0 .. SECTOR, written : Nat, target : Slot,
                 seen : [Copy -> SeqNumber]]
    <3>1. /\ done \in UploadState /\ up.got + n \in Nat /\ 0 \in 0 .. SECTOR
          /\ up.written + SECTOR \in Nat
      BY <1>1, <1>2 DEF UploadState
    <3>. QED  BY <2>2, <3>1 DEF OtaTypeOK
  <2>6. OtaTypeOK'
    BY <1>1, <2>4, <2>5 DEF OtaTypeOK
  <2>7. /\ up'.state = done /\ up'.got = up.got + n /\ up'.fill = 0
        /\ up'.written = up.written + SECTOR /\ up'.size = up.size
        /\ up'.seen = up.seen /\ up'.target = up.target /\ up'.image = up.image
    BY <2>2 DEF OtaTypeOK
  <2>8. SeqInv'
    BY <1>1, <2>7 DEF SeqInv, TargetOf, Named, Higher
  <2>9. ImageInv'
    BY <1>1, <2>7 DEF ImageInv
  <2>10. CountInv'
    <3>1. up'.fill < SECTOR
      BY <1>2, <1>3, <2>7
    <3>2. up'.state = "receiving" => up'.got < up'.size
      BY <1>1, <1>2, <2>7
    <3>3. up'.state # "receiving" => up'.got = up'.size
      BY <1>1, <2>7
    <3>. QED  BY <3>1, <3>2, <3>3 DEF CountInv
  <2>11. SectorsWhole'
    <3>1. up.written + SECTOR = up.got + n
      BY <1>2, <1>3, <1>4 DEF Full
    <3>2. (up.written + SECTOR) % SECTOR = 0
      BY <1>2, <1>3, NextSectorAligned
    <3>. QED  BY <1>2, <2>7, <3>1, <3>2 DEF SectorsWhole
  <2>12. NamedKept'
    BY <1>1, <2>1, NamedUntouched
  <2>. QED  BY <2>6, <2>8, <2>9, <2>10, <2>11, <2>12
<1>5. CASE ~Full(n)
  <2>1. up' = [up EXCEPT !.state = done, !.got = @ + n, !.fill = @ + n] /\ UNCHANGED slot
    BY <1>5 DEF Receive, done
  <2>2. up.fill + n < SECTOR
    BY <1>2, <1>5 DEF Full
  <2>3. up' \in [state : UploadState, image : Content, intact : BOOLEAN, size : Nat,
                 got : Nat, fill : 0 .. SECTOR, written : Nat, target : Slot,
                 seen : [Copy -> SeqNumber]]
    <3>1. done \in UploadState /\ up.got + n \in Nat /\ up.fill + n \in 0 .. SECTOR
      BY <1>1, <1>2, <2>2 DEF UploadState
    <3>. QED  BY <2>1, <3>1 DEF OtaTypeOK
  <2>4. OtaTypeOK'
    BY <1>1, <2>1, <2>3 DEF OtaTypeOK
  <2>5. /\ up'.state = done /\ up'.got = up.got + n /\ up'.fill = up.fill + n
        /\ up'.written = up.written /\ up'.size = up.size
        /\ up'.seen = up.seen /\ up'.target = up.target /\ up'.image = up.image
    BY <2>1 DEF OtaTypeOK
  <2>6. SeqInv'
    BY <1>1, <2>5 DEF SeqInv, TargetOf, Named, Higher
  <2>7. ImageInv'
    BY <1>1, <2>5 DEF ImageInv
  <2>8. CountInv'
    BY <1>1, <1>2, <1>3, <2>2, <2>5 DEF CountInv
  <2>9. SectorsWhole'
    BY <1>2, <1>3, <2>5 DEF SectorsWhole
  <2>10. NamedKept'
    BY <1>1, <2>1, NamedFrame
  <2>. QED  BY <2>4, <2>6, <2>7, <2>8, <2>9, <2>10
<1>. QED  BY <1>4, <1>5

LEMMA FlushStep ==
  ASSUME OtaIInv, Flush
  PROVE  OtaIInv'
<1>. USE DEF OtaIInv
<1>1. /\ up.state = "received" /\ UNCHANGED <<seq, running>>
      /\ up' = [up EXCEPT !.fill = 0, !.written = @ + up.fill]
  BY DEF Flush
<1>2. PICK c \in SlotAfter(up.written + up.fill) : Holds(c)
  BY DEF Flush
<1>3. /\ SECTOR \in Nat /\ SECTOR > 0
      /\ up.fill \in Nat /\ up.got \in Nat /\ up.size \in Nat /\ up.written \in Nat
  BY OtaAssumption DEF OtaTypeOK
<1>4. /\ up'.state = "received" /\ up'.got = up.got /\ up'.fill = 0
      /\ up'.written = up.written + up.fill /\ up'.size = up.size
      /\ up'.seen = up.seen /\ up'.target = up.target /\ up'.image = up.image
  BY <1>1 DEF OtaTypeOK
<1>5. OtaTypeOK'
  <2>1. c \in Content
    BY DEF SlotAfter, Content, OtaTypeOK
  <2>2. slot' \in [Slot -> Content]
    BY <1>2, <2>1, Contents
  <2>3. up' \in [state : UploadState, image : Content, intact : BOOLEAN, size : Nat,
                 got : Nat, fill : 0 .. SECTOR, written : Nat, target : Slot,
                 seen : [Copy -> SeqNumber]]
    <3>1. 0 \in 0 .. SECTOR /\ up.written + up.fill \in Nat
      BY <1>3
    <3>. QED  BY <1>1, <3>1 DEF OtaTypeOK
  <2>. QED  BY <1>1, <2>2, <2>3 DEF OtaTypeOK
<1>6. SeqInv'
  BY <1>1, <1>4 DEF SeqInv, TargetOf, Named, Higher
<1>7. ImageInv'
  BY <1>1, <1>4 DEF ImageInv
<1>8. CountInv'
  BY <1>1, <1>3, <1>4 DEF CountInv
<1>9. SectorsWhole'
  <2>1. up.written + up.fill = up.got /\ up.got = up.size
    BY <1>1 DEF SectorsWhole, CountInv
  <2>. QED  BY <1>3, <1>4, <2>1 DEF SectorsWhole
<1>10. NamedKept'
  BY <1>1, <1>2, NamedUntouched
<1>. QED  BY <1>5, <1>6, <1>7, <1>8, <1>9, <1>10

(* What an upload that writes leaves in its slot when it stops.            *)
LEMMA StopStep ==
  ASSUME OtaIInv, up' = NoUpload, UNCHANGED seq, running' \in Slot \cup {Off},
         (Writing /\ Holds(Torn)) \/ UNCHANGED slot
  PROVE  OtaIInv'
<1>. USE DEF OtaIInv
<1>1. CASE UNCHANGED slot
  <2>1. NamedKept'
    BY <1>1, NamedFrame
  <2>. QED  BY <1>1, <2>1, GivenUp DEF OtaTypeOK
<1>2. CASE Writing /\ Holds(Torn)
  <2>1. up.state \in {"receiving", "received", "verified"}
    BY <1>2 DEF Writing
  <2>2. NamedKept'
    BY <1>2, <2>1, NamedUntouched
  <2>3. slot' \in [Slot -> Content]
    BY <1>2, Contents DEF Content
  <2>. QED  BY <2>2, <2>3, GivenUp DEF OtaTypeOK
<1>. QED  BY <1>1, <1>2

LEMMA VerifyStep ==
  ASSUME OtaIInv, Verify
  PROVE  OtaIInv'
<1>. USE DEF OtaIInv
<1>1. up.state = "received" /\ UNCHANGED <<slot, seq, running>>
  BY DEF Verify
<1>2. CASE up.intact /\ slot[up.target] = up.image
  <2>1. up' = [up EXCEPT !.state = "verified"]
    BY <1>2 DEF Verify
  <2>2. /\ up'.state = "verified" /\ up'.got = up.got /\ up'.fill = up.fill
        /\ up'.written = up.written /\ up'.size = up.size
        /\ up'.seen = up.seen /\ up'.target = up.target /\ up'.image = up.image
    BY <2>1 DEF OtaTypeOK
  <2>3. OtaTypeOK'
    BY <1>1, <2>1 DEF OtaTypeOK, UploadState
  <2>4. SeqInv'
    BY <1>1, <2>2 DEF SeqInv, TargetOf, Named, Higher
  <2>5. ImageInv' /\ CountInv' /\ SectorsWhole'
    BY <1>1, <1>2, <2>2 DEF ImageInv, CountInv, SectorsWhole
  <2>6. NamedKept'
    BY <1>1, NamedFrame
  <2>. QED  BY <2>3, <2>4, <2>5, <2>6
<1>3. CASE ~(up.intact /\ slot[up.target] = up.image)
  <2>1. up' = NoUpload
    BY <1>3 DEF Verify
  <2>2. running' \in Slot \cup {Off}
    BY <1>1 DEF OtaTypeOK
  <2>. QED  BY <1>1, <2>1, <2>2, StopStep
<1>. QED  BY <1>2, <1>3

LEMMA EraseStep ==
  ASSUME OtaIInv, EraseOtadata
  PROVE  OtaIInv' /\ Higher(seq') = Higher(seq)
<1>. USE DEF OtaIInv
<1>1. /\ up.state = "verified" /\ UNCHANGED <<slot, running>>
      /\ seq' = [seq EXCEPT ![CopyToWrite] = 0]
      /\ up' = [up EXCEPT !.state = "erased"]
  BY DEF EraseOtadata
<1>2. up.seen \in [Copy -> SeqNumber] /\ seq = up.seen /\ 0 \in SeqNumber
  BY <1>1, OtaAssumption DEF OtaTypeOK, SeqInv, SeqNumber
<1>3. /\ up'.state = "erased" /\ up'.got = up.got /\ up'.fill = up.fill
      /\ up'.written = up.written /\ up'.size = up.size
      /\ up'.seen = up.seen /\ up'.target = up.target /\ up'.image = up.image
  BY <1>1 DEF OtaTypeOK
<1>4. Higher(seq') = Higher(seq)
  BY <1>1, <1>2, EraseKeepsHigher
<1>5. OtaTypeOK'
  BY <1>1, <1>2, EraseKeepsHigher DEF OtaTypeOK, UploadState
<1>6. SeqInv'
  BY <1>1, <1>2, <1>3 DEF SeqInv, TargetOf, Named, Higher, CopyToWrite
<1>7. ImageInv' /\ CountInv' /\ SectorsWhole'
  BY <1>1, <1>3 DEF ImageInv, CountInv, SectorsWhole
<1>8. NamedKept'
  BY <1>1, <1>4 DEF NamedKept, NamedSlotBoots, Bootable, Named
<1>. QED  BY <1>4, <1>5, <1>6, <1>7, <1>8

LEMMA WriteStep ==
  ASSUME OtaIInv, WriteOtadata
  PROVE  OtaIInv' /\ Higher(seq') > Higher(seq) /\ Named(seq') = up.target
<1>. USE DEF OtaIInv
<1>1. /\ up.state = "erased" /\ UNCHANGED <<slot, running>>
      /\ seq' = [seq EXCEPT ![CopyToWrite] = NextSeq]
      /\ up' = [up EXCEPT !.state = "committed"]
  BY DEF WriteOtadata
<1>2. /\ up.seen \in [Copy -> SeqNumber] /\ up.target \in Slot /\ seq \in [Copy -> SeqNumber]
      /\ Higher(up.seen) =< MaxSeq /\ seq = [up.seen EXCEPT ![CopyToWrite] = 0]
  BY <1>1 DEF OtaTypeOK, SeqInv
<1>3. /\ up'.state = "committed" /\ up'.got = up.got /\ up'.fill = up.fill
      /\ up'.written = up.written /\ up'.size = up.size
      /\ up'.seen = up.seen /\ up'.target = up.target /\ up'.image = up.image
  BY <1>1 DEF OtaTypeOK
<1>4. Higher(seq) = Higher(up.seen) /\ CopyToWrite \in Copy
  BY <1>2, EraseKeepsHigher
<1>5. /\ NextSeq \in Nat /\ NextSeq > Higher(seq) /\ NextSeq \in SeqNumber
      /\ SeqToPart(NextSeq) = up.target
  BY <1>2, <1>4, NextSeqProperties, HigherProperties, OtaAssumption DEF SeqNumber
<1>6. Higher(seq') = NextSeq
  BY <1>1, <1>2, <1>4, <1>5, WriteIsInForce
<1>7. Named(seq') = up.target
  BY <1>5, <1>6 DEF Named
<1>8. OtaTypeOK'
  BY <1>1, <1>4, <1>5 DEF OtaTypeOK, UploadState
<1>9. SeqInv'
  BY <1>1, <1>2, <1>3 DEF SeqInv, TargetOf, Named, Higher
<1>10. ImageInv' /\ CountInv' /\ SectorsWhole'
  BY <1>1, <1>3 DEF ImageInv, CountInv, SectorsWhole
<1>11. NamedKept'
  BY <1>1, <1>7 DEF NamedKept, NamedSlotBoots, Bootable, ImageInv
<1>. QED  BY <1>5, <1>6, <1>7, <1>8, <1>9, <1>10, <1>11

LEMMA BootStep ==
  ASSUME OtaIInv, Boot
  PROVE  OtaIInv'
<1>. USE DEF OtaIInv
<1>1. UNCHANGED <<slot, seq, up>> /\ running' \in Slot
  <2>1. Named(seq) \in Slot
    BY TargetProperties DEF OtaTypeOK
  <2>. QED  BY <2>1 DEF Boot
<1>2. OtaTypeOK'
  BY <1>1 DEF OtaTypeOK
<1>3. SeqInv'
  BY <1>1 DEF SeqInv, TargetOf, Named, Higher, CopyToWrite
<1>4. ImageInv' /\ CountInv' /\ SectorsWhole'
  BY <1>1 DEF ImageInv, CountInv, SectorsWhole
<1>5. NamedKept'
  BY <1>1, NamedFrame
<1>. QED  BY <1>2, <1>3, <1>4, <1>5

LEMMA StutterStep ==
  ASSUME OtaIInv, UNCHANGED otaVars
  PROVE  OtaIInv'
<1>. USE DEF OtaIInv, otaVars
<1>1. OtaTypeOK' /\ SeqInv'
  BY DEF OtaTypeOK, SeqInv, TargetOf, Named, Higher, CopyToWrite
<1>2. ImageInv' /\ CountInv' /\ SectorsWhole'
  BY DEF ImageInv, CountInv, SectorsWhole
<1>3. NamedKept'
  BY NamedFrame
<1>. QED  BY <1>1, <1>2, <1>3

-----------------------------------------------------------------------------
(* The server                                                              *)

LEMMA NextIsOtaStep ==
  ASSUME [Next]_vars
  PROVE  OtaStep
<1>1. CASE Next
  <2>1. CASE Accept \/ ClientLeaves \/ SocketTimesOut
    BY <2>1 DEF Accept, ClientLeaves, SocketTimesOut, OtaStep
  <2>2. CASE PowerFails \/ Boots
    BY <2>2 DEF PowerFails, Boots, OtaStep
  <2>3. CASE Serve
    <3>1. CASE NotServed \/ Answer \/ Command \/ CommandSent \/ Replied \/ Reaccept
      BY <3>1 DEF NotServed, Answer, Command, CommandSent, Replied, Reaccept, OtaStep
    <3>2. CASE Post
      BY <3>2 DEF Post, OtaStep
    <3>3. CASE BodyArrives
      BY <3>3 DEF BodyArrives, OtaStep
    <3>4. CASE BodyEnds \/ BodyFails \/ Store \/ Check
      BY <3>4 DEF BodyEnds, BodyFails, Store, Check, OtaStep
    <3>5. CASE StoreFails \/ Commit \/ RebootDue
      BY <3>5 DEF StoreFails, Commit, RebootDue, OtaStep
    <3>. QED  BY <2>3, <3>1, <3>2, <3>3, <3>4, <3>5 DEF Serve
  <2>. QED  BY <1>1, <2>1, <2>2, <2>3 DEF Next
<1>2. CASE UNCHANGED vars
  BY <1>2 DEF vars, OtaStep
<1>. QED  BY <1>1, <1>2

LEMMA OtaStepPreserves ==
  ASSUME OtaIInv, OtaStep
  PROVE  OtaIInv'
<1>1. CASE \E i \in Uploads, b \in BOOLEAN, n \in Sizes, k \in 0 .. SECTOR - 1 : Begin(i, b, n, k)
  BY <1>1, BeginStep
<1>2. CASE \E n \in 1 .. SECTOR : Receive(n)
  BY <1>2, ReceiveStep
<1>3. CASE Flush
  BY <1>3, FlushStep
<1>4. CASE ReadEnds \/ FlashFails \/ Reboot \/ PowerLoss
  <2>1. /\ up' = NoUpload /\ UNCHANGED seq
        /\ (Writing /\ Holds(Torn)) \/ UNCHANGED slot
        /\ running' = running \/ running' = Off
    BY <1>4 DEF ReadEnds, FlashFails, Reboot, PowerLoss, Stop
  <2>2. running' \in Slot \cup {Off}
    BY <2>1 DEF OtaIInv, OtaTypeOK
  <2>. QED  BY <2>1, <2>2, StopStep
<1>5. CASE Verify \/ EraseOtadata \/ WriteOtadata
  BY <1>5, VerifyStep, EraseStep, WriteStep
<1>6. CASE Boot \/ UNCHANGED otaVars
  BY <1>6, BootStep, StutterStep
<1>. QED  BY <1>1, <1>2, <1>3, <1>4, <1>5, <1>6 DEF OtaStep
LEMMA ConnPreserved ==
  ASSUME ConnTypeOK, [Next]_vars
  PROVE  ConnTypeOK'
<1>. USE DEF ConnTypeOK
<1>1. CASE Next
  <2>1. CASE Accept \/ ClientLeaves \/ SocketTimesOut
    BY <2>1 DEF Accept, ClientLeaves, SocketTimesOut
  <2>2. CASE PowerFails \/ Boots \/ RebootDue
    BY <2>2 DEF PowerFails, Boots, RebootDue, Disconnected
  <2>3. CASE NotServed \/ Answer \/ Command \/ CommandSent \/ Replied \/ Reaccept
    BY <2>3 DEF NotServed, Answer, Command, CommandSent, Replied, Reaccept
  <2>4. CASE Post \/ BodyArrives \/ BodyEnds \/ BodyFails
    BY <2>4 DEF Post, BodyArrives, BodyEnds, BodyFails
  <2>5. CASE Store \/ Check \/ StoreFails \/ Commit
    BY <2>5 DEF Store, Check, StoreFails, Commit
  <2>. QED  BY <1>1, <2>1, <2>2, <2>3, <2>4, <2>5 DEF Next, Serve
<1>2. CASE UNCHANGED vars
  BY <1>2 DEF vars
<1>. QED  BY <1>1, <1>2

LEMMA NextPreserves == IInv /\ [Next]_vars => IInv'
BY NextIsOtaStep, OtaStepPreserves, ConnPreserved DEF IInv

(* Only the write of otadata moves the bootloader's choice.                *)
LEMMA ChoiceStep ==
  ASSUME OtaIInv, OtaStep
  PROVE  [/\ Higher(seq') >= Higher(seq)
          /\ Named(seq') # Named(seq) => WriteOtadata /\ Named(seq') = up.target]_otaVars
<1>1. Higher(seq) \in Nat
  BY HigherProperties, OtaAssumption DEF OtaIInv, OtaTypeOK, SeqNumber
<1>2. CASE UNCHANGED seq
  BY <1>1, <1>2
<1>3. CASE EraseOtadata
  <2>1. Higher(seq') = Higher(seq)
    BY <1>3, EraseStep
  <2>2. Named(seq') = Named(seq)
    BY <2>1 DEF Named
  <2>. QED  BY <1>1, <2>1, <2>2
<1>4. CASE WriteOtadata
  <2>1. Higher(seq') > Higher(seq) /\ Named(seq') = up.target /\ OtaIInv'
    BY <1>4, WriteStep
  <2>2. Higher(seq') \in Nat
    BY <2>1, HigherProperties, OtaAssumption DEF OtaIInv, OtaTypeOK, SeqNumber
  <2>. QED  BY <1>1, <1>4, <2>1, <2>2
<1>5. UNCHANGED seq \/ EraseOtadata \/ WriteOtadata
  BY DEF OtaStep, Begin, Receive, Flush, ReadEnds, FlashFails, Verify, Reboot, PowerLoss,
         Boot, otaVars
<1>. QED  BY <1>2, <1>3, <1>4, <1>5

-----------------------------------------------------------------------------
(* The running slot.  If only applications are uploaded, the bootloader    *)
(* never falls back, and otadata names the slot that runs.                 *)

RunInv ==
  /\ running = Off => up.state = "none"
  /\ Uploads \subseteq Apps /\ running # Off
       => IF up.state = "committed" THEN up.target # running ELSE running = Named(seq)

LEMMA RunInvInit == Init => RunInv
BY DEF Init, OtaInit, NoUpload, RunInv, Named, Higher, SeqToPart, Copy, Off

(* A step that neither commits nor stops leaves the naming as it is.       *)
LEMMA RunInvFrame ==
  ASSUME RunInv, UNCHANGED running, Named(seq') = Named(seq), running # Off,
         up.state # "committed", up'.state # "committed"
  PROVE  RunInv'
<1>1. Named(seq)' = Named(seq')
  BY DEF Named, Higher
<1>. QED  BY <1>1 DEF RunInv

LEMMA RunInvStep ==
  ASSUME OtaIInv, RunInv, OtaStep
  PROVE  RunInv'
<1>1. ASSUME NEW i \in Uploads, NEW b \in BOOLEAN, NEW n \in Sizes, NEW k \in 0 .. SECTOR - 1,
             Begin(i, b, n, k)
      PROVE  RunInv'
  <2>1. up'.state # "committed"
    BY <1>1 DEF Begin
  <2>. QED  BY <1>1, <2>1, RunInvFrame DEF Begin
<1>2. CASE (\E n \in 1 .. SECTOR : Receive(n)) \/ Flush \/ Verify
  <2>1. up.state \in {"receiving", "received"} /\ UNCHANGED <<seq, running>>
    BY <1>2 DEF Receive, Flush, Verify
  <2>2. up'.state # "committed"
    <3>1. ASSUME NEW n \in 1 .. SECTOR, Receive(n) PROVE up'.state \in {"receiving", "received"}
      <4>1. CASE Full(n)
        BY <3>1, <4>1 DEF Receive, OtaIInv, OtaTypeOK
      <4>2. CASE ~Full(n)
        BY <3>1, <4>2 DEF Receive, OtaIInv, OtaTypeOK
      <4>. QED  BY <4>1, <4>2
    <3>2. CASE Flush
      BY <2>1, <3>2 DEF Flush, OtaIInv, OtaTypeOK
    <3>3. CASE Verify
      BY <3>3 DEF Verify, NoUpload, OtaIInv, OtaTypeOK
    <3>. QED  BY <1>2, <3>1, <3>2, <3>3
  <2>3. running # Off
    BY <2>1 DEF RunInv
  <2>. QED  BY <2>1, <2>2, <2>3, RunInvFrame
<1>3. CASE ReadEnds \/ FlashFails
  <2>1. up.state \notin {"none", "committed"} /\ up' = NoUpload /\ UNCHANGED <<seq, running>>
    BY <1>3 DEF ReadEnds, FlashFails, Writing
  <2>2. running # Off /\ up'.state # "committed"
    BY <2>1 DEF RunInv, NoUpload
  <2>. QED  BY <2>1, <2>2, RunInvFrame
<1>4. CASE EraseOtadata
  <2>1. up.state = "verified" /\ up'.state = "erased" /\ UNCHANGED running
    BY <1>4 DEF EraseOtadata, OtaIInv, OtaTypeOK
  <2>2. Named(seq') = Named(seq)
    BY <1>4, EraseStep DEF Named
  <2>3. running # Off
    BY <2>1 DEF RunInv
  <2>. QED  BY <2>1, <2>2, <2>3, RunInvFrame
<1>5. CASE WriteOtadata
  <2>1. up.state = "erased" /\ up'.state = "committed" /\ up'.target = up.target /\ UNCHANGED running
    BY <1>5 DEF WriteOtadata, OtaIInv, OtaTypeOK
  <2>2. up.target # Named(seq)
    <3>1. /\ up.seen \in [Copy -> SeqNumber] /\ up.target = TargetOf(up.seen)
          /\ seq = [up.seen EXCEPT ![CopyToWrite] = 0]
      BY <2>1 DEF OtaIInv, OtaTypeOK, SeqInv
    <3>2. Named(seq) = Named(up.seen)
      BY <3>1, EraseKeepsHigher DEF Named
    <3>. QED  BY <3>1, <3>2, TargetProperties
  <2>. QED  BY <2>1, <2>2 DEF RunInv
<1>6. CASE Reboot \/ PowerLoss
  <2>1. running' = Off /\ up' = NoUpload
    BY <1>6 DEF Reboot, PowerLoss, Stop
  <2>. QED  BY <2>1 DEF RunInv, NoUpload
<1>7. CASE Boot
  <2>1. up.state = "none" /\ UNCHANGED <<seq, up>>
    BY <1>7 DEF Boot, RunInv
  <2>2. Uploads \subseteq Apps => running' = Named(seq)
    BY <1>7 DEF Boot, OtaIInv, NamedKept, NamedSlotBoots
  <2>3. running' # Off
    BY <1>7, TargetProperties DEF Boot, OtaIInv, OtaTypeOK, Slot, Off
  <2>4. Named(seq)' = Named(seq)
    BY <2>1 DEF Named, Higher
  <2>. QED  BY <2>1, <2>2, <2>3, <2>4 DEF RunInv
<1>8. CASE UNCHANGED otaVars
  <2>1. Named(seq)' = Named(seq)
    BY <1>8 DEF otaVars, Named, Higher
  <2>. QED  BY <1>8, <2>1 DEF otaVars, RunInv
<1>. QED  BY <1>1, <1>2, <1>3, <1>4, <1>5, <1>6, <1>7, <1>8 DEF OtaStep

(* The target is the slot that otadata does not name, in every state of an *)
(* upload that has not committed.                                          *)
LEMMA RunInvKeepsSlot ==
  ASSUME OtaIInv, RunInv, Uploads \subseteq Apps
  PROVE  RunningSlotKept
<1>. SUFFICES ASSUME up.state # "none" PROVE up.target # running
  BY DEF RunningSlotKept
<1>1. CASE up.state = "committed"
  BY <1>1 DEF RunInv
<1>2. CASE up.state # "committed"
  <2>1. running # Off /\ running = Named(seq)
    BY <1>2 DEF RunInv
  <2>2. up.seen \in [Copy -> SeqNumber] /\ up.target = TargetOf(up.seen)
    BY DEF OtaIInv, OtaTypeOK, SeqInv
  <2>3. Named(seq) = Named(up.seen)
    <3>1. seq = up.seen \/ seq = [up.seen EXCEPT ![CopyToWrite] = 0]
      BY <1>2 DEF OtaIInv, OtaTypeOK, SeqInv, UploadState
    <3>. QED  BY <2>2, <3>1, EraseKeepsHigher DEF Named
  <2>. QED  BY <2>1, <2>2, <2>3, TargetProperties
<1>. QED  BY <1>1, <1>2

-----------------------------------------------------------------------------
(* The inductive invariant holds of every behaviour.                       *)
THEOREM Invariance == Spec => []IInv
BY InitEstablishes, NextPreserves, PTL DEF Spec

(* Type correctness of the server and of the update that it runs.          *)
THEOREM TypeCorrect == Spec => []TypeOK
<1>1. IInv => TypeOK
  BY DEF IInv, OtaIInv, ConnTypeOK, TypeOK
<1>. QED  BY <1>1, Invariance, PTL

(* A power loss at any moment leaves a named slot that boots, if what is   *)
(* uploaded is an application: handle_ota looks at the CRC only.           *)
THEOREM NamedSlotAlwaysBoots ==
  ASSUME Uploads \subseteq Apps
  PROVE  Spec => []NamedSlotBoots
<1>1. IInv => NamedSlotBoots
  BY DEF IInv, OtaIInv, NamedKept
<1>. QED  BY <1>1, Invariance, PTL

(* The segments of the body, of any sizes, fill every sector once.         *)
THEOREM SectorsAlwaysWhole == Spec => []SectorsWhole
<1>1. IInv => SectorsWhole
  BY DEF IInv, OtaIInv
<1>. QED  BY <1>1, Invariance, PTL

(* The bootloader's choice moves only to a slot that was verified, and a   *)
(* power loss takes no committed update back.                              *)
THEOREM ChoiceOnlyForward == Spec => ChoiceMovesForward
<1>1. IInv /\ [Next]_vars
        => [/\ Higher(seq') >= Higher(seq)
            /\ Named(seq') # Named(seq) => WriteOtadata /\ Named(seq') = up.target]_otaVars
  BY NextIsOtaStep, ChoiceStep DEF IInv
<1>. QED  BY <1>1, Invariance, PTL DEF Spec, ChoiceMovesForward
(* A running application is never overwritten as long as what is uploaded  *)
(* is an application; run running_slot_kept refutes it for other files.    *)
THEOREM RunningSlotAlwaysKept ==
  ASSUME Uploads \subseteq Apps
  PROVE  Spec => []RunningSlotKept
<1>1. IInv /\ RunInv /\ [Next]_vars => RunInv'
  BY NextIsOtaStep, RunInvStep DEF IInv
<1>2. IInv /\ RunInv => RunningSlotKept
  BY RunInvKeepsSlot DEF IInv
<1>. QED  BY <1>1, <1>2, RunInvInit, Invariance, PTL DEF Spec

-----------------------------------------------------------------------------
(* The refinement: an update is one step of AtomicUpdate.                  *)

(* finish() goes beyond the CRC only with a body that matches it.          *)
IntactInv == up.state \in {"verified", "erased", "committed"} => up.intact

LEMMA IntactStep ==
  ASSUME OtaIInv, IntactInv, OtaStep
  PROVE  IntactInv'
<1>. USE DEF OtaIInv, OtaTypeOK, IntactInv
<1>1. CASE \E i \in Uploads, b \in BOOLEAN, n \in Sizes, k \in 0 .. SECTOR - 1 : Begin(i, b, n, k)
  BY <1>1 DEF Begin
<1>2. CASE \E n \in 1 .. SECTOR : Receive(n)
  <2>1. PICK n \in 1 .. SECTOR : Receive(n)
    BY <1>2
  <2>2. up'.state \in {"receiving", "received"}
    <3>1. CASE Full(n)
      BY <2>1, <3>1 DEF Receive
    <3>2. CASE ~Full(n)
      BY <2>1, <3>2 DEF Receive
    <3>. QED  BY <3>1, <3>2
  <2>. QED  BY <2>2
<1>3. CASE Flush \/ EraseOtadata \/ WriteOtadata
  BY <1>3 DEF Flush, EraseOtadata, WriteOtadata
<1>4. CASE Verify
  BY <1>4 DEF Verify, NoUpload
<1>5. CASE ReadEnds \/ FlashFails \/ Reboot \/ PowerLoss
  BY <1>5 DEF ReadEnds, FlashFails, Reboot, PowerLoss, Stop, NoUpload
<1>6. CASE Boot \/ UNCHANGED otaVars
  BY <1>6 DEF Boot, otaVars
<1>. QED  BY <1>1, <1>2, <1>3, <1>4, <1>5, <1>6 DEF OtaStep

AtomicInv == OtaIInv /\ RunInv /\ IntactInv /\ Uploads \subseteq Apps

RunningImage == IF running = Off THEN Torn ELSE slot[running]
NextImage == slot[Named(seq)]
Offered == IF up.state # "none" /\ up.intact THEN {up.image} ELSE {}
Committed == up.state = "committed"

(* The images that run and that the next boot runs are applications, and   *)
(* the target of an upload is neither of them until it commits.            *)
LEMMA NamedAndRunning ==
  ASSUME AtomicInv
  PROVE  /\ Named(seq) \in Slot /\ NextImage \in Apps
         /\ running # Off => running \in Slot
         /\ running # Off /\ ~Committed => running = Named(seq)
         /\ up.state # "none" => running # Off /\ up.target # running
         /\ up.state \notin {"none", "committed"} => up.target # Named(seq)
<1>1. Named(seq) \in Slot /\ NextImage \in Apps
  BY TargetProperties
  DEF AtomicInv, OtaIInv, OtaTypeOK, NamedKept, NamedSlotBoots, Bootable, NextImage
<1>2. running # Off => running \in Slot
  BY DEF AtomicInv, OtaIInv, OtaTypeOK
<1>3. running # Off /\ ~Committed => running = Named(seq)
  BY DEF AtomicInv, RunInv, Committed
<1>4. up.state # "none" => running # Off /\ up.target # running
  BY RunInvKeepsSlot DEF AtomicInv, RunInv, RunningSlotKept
<1>. QED  BY <1>1, <1>2, <1>3, <1>4 DEF Committed

(* A write to the target is seen neither by what runs nor by the next boot. *)
LEMMA TargetUnseen ==
  ASSUME AtomicInv, up.state \notin {"none", "committed"}, NEW c, Holds(c),
         UNCHANGED <<seq, running>>
  PROVE  UNCHANGED <<RunningImage, NextImage>>
<1>1. Named(seq)' = Named(seq)
  BY DEF Named, Higher
<1>2. slot'[Named(seq)] = slot[Named(seq)] /\ slot'[running] = slot[running]
  BY NamedAndRunning DEF Holds, AtomicInv, OtaIInv, OtaTypeOK
<1>. QED  BY <1>1, <1>2 DEF RunningImage, NextImage

LEMMA SlotsUnchanged ==
  ASSUME UNCHANGED <<slot, seq>>
  PROVE  /\ UNCHANGED NextImage
         /\ UNCHANGED running => UNCHANGED RunningImage
BY DEF NextImage, RunningImage, Named, Higher

UpdateStep == [Update!Next]_(Update!vars)

LEMMA UpdateStutters ==
  ASSUME UNCHANGED <<RunningImage, NextImage, Offered, Committed>>
  PROVE  UpdateStep
BY DEF UpdateStep, Update!vars, RunningImage, NextImage, Offered, Committed

LEMMA Withdraws ==
  ASSUME UNCHANGED <<RunningImage, NextImage>>, up' = NoUpload, ~Committed
  PROVE  UpdateStep
<1>1. Offered' = {} /\ ~Committed'
  BY DEF NoUpload, Offered, Committed
<1>. QED
  BY <1>1 DEF UpdateStep, Update!Next, Update!Withdraw, RunningImage, NextImage, Offered, Committed

LEMMA StopRefines ==
  ASSUME UNCHANGED NextImage, Stop
  PROVE  UpdateStep
<1>1. RunningImage' = Torn /\ Offered' = {} /\ Committed' = FALSE
  BY DEF Stop, NoUpload, RunningImage, Offered, Committed
<1>. QED
  BY <1>1 DEF UpdateStep, Update!Next, Update!Stop, RunningImage, NextImage, Offered, Committed

LEMMA BeginRefines ==
  ASSUME AtomicInv, NEW i \in Uploads, NEW b \in BOOLEAN, NEW n \in Sizes,
         NEW k \in 0 .. SECTOR - 1, Begin(i, b, n, k)
  PROVE  UpdateStep
<1>1. /\ UNCHANGED <<RunningImage, NextImage>>
      /\ Offered = {} /\ Offered' = IF b THEN {i} ELSE {}
      /\ ~Committed /\ ~Committed'
  BY SlotsUnchanged DEF Begin, Offered, Committed
<1>2. CASE b
  <2>1. RunningImage # Torn /\ i \in Apps
    <3>1. running = Named(seq) /\ running # Off
      BY <1>1, NamedAndRunning DEF Begin
    <3>2. RunningImage \in Apps
      BY <3>1, NamedAndRunning DEF RunningImage, NextImage
    <3>. QED  BY <3>2, OtaAssumption DEF AtomicInv
  <2>2. Offered = {} /\ Offered' = {i} /\ UNCHANGED <<RunningImage, NextImage, Committed>>
    BY <1>1, <1>2 DEF Committed
  <2>. QED
    BY <2>1, <2>2
    DEF UpdateStep, Update!Next, Update!Offer, RunningImage, NextImage, Offered, Committed
<1>3. CASE ~b
  BY <1>1, <1>3, UpdateStutters DEF Committed
<1>. QED  BY <1>2, <1>3

(* The upload goes on: nothing is withdrawn, nothing is committed.         *)
LEMMA Proceeds ==
  ASSUME UNCHANGED <<RunningImage, NextImage>>, up.state \notin {"none", "committed"},
         up'.state \notin {"none", "committed"}, up'.image = up.image, up'.intact = up.intact
  PROVE  UpdateStep
BY UpdateStutters DEF Offered, Committed

LEMMA StoreRefines ==
  ASSUME AtomicInv, (\E n \in 1 .. SECTOR : Receive(n)) \/ Flush
  PROVE  UpdateStep
<1>1. CASE \E n \in 1 .. SECTOR : Receive(n)
  <2>1. PICK n \in 1 .. SECTOR : Receive(n)
    BY <1>1
  <2>2. up.state = "receiving" /\ UNCHANGED <<seq, running>>
    BY <2>1 DEF Receive
  <2>3. CASE Full(n)
    <3>1. PICK c \in SlotAfter(up.written + SECTOR) : Holds(c)
      BY <2>1, <2>3 DEF Receive
    <3>2. UNCHANGED <<RunningImage, NextImage>>
      BY <2>2, <3>1, TargetUnseen
    <3>3. /\ up'.state \in {"receiving", "received"}
          /\ up'.image = up.image /\ up'.intact = up.intact
      BY <2>1, <2>3 DEF Receive, AtomicInv, OtaIInv, OtaTypeOK
    <3>. QED  BY <2>2, <3>2, <3>3, Proceeds
  <2>4. CASE ~Full(n)
    <3>1. UNCHANGED <<RunningImage, NextImage>>
      BY <2>1, <2>4, SlotsUnchanged DEF Receive
    <3>2. /\ up'.state \in {"receiving", "received"}
          /\ up'.image = up.image /\ up'.intact = up.intact
      BY <2>1, <2>4 DEF Receive, AtomicInv, OtaIInv, OtaTypeOK
    <3>. QED  BY <2>2, <3>1, <3>2, Proceeds
  <2>. QED  BY <2>3, <2>4
<1>2. CASE Flush
  <2>1. PICK c \in SlotAfter(up.written + up.fill) : Holds(c)
    BY <1>2 DEF Flush
  <2>2. /\ up.state = "received" /\ UNCHANGED <<seq, running>>
        /\ up'.state = "received" /\ up'.image = up.image /\ up'.intact = up.intact
    BY <1>2 DEF Flush, AtomicInv, OtaIInv, OtaTypeOK
  <2>. QED  BY <2>1, <2>2, TargetUnseen, Proceeds
<1>. QED  BY <1>1, <1>2

LEMMA EndRefines ==
  ASSUME AtomicInv, ReadEnds \/ FlashFails \/ Verify
  PROVE  UpdateStep
<1>1. CASE ReadEnds \/ FlashFails
  <2>1. /\ up.state \notin {"none", "committed"} /\ up' = NoUpload
        /\ UNCHANGED <<seq, running>>
        /\ Holds(Torn) \/ UNCHANGED slot
    BY <1>1 DEF ReadEnds, FlashFails, Writing
  <2>2. UNCHANGED <<RunningImage, NextImage>>
    BY <2>1, TargetUnseen, SlotsUnchanged
  <2>. QED  BY <2>1, <2>2, Withdraws DEF Committed
<1>2. CASE Verify
  <2>1. UNCHANGED <<RunningImage, NextImage>> /\ up.state = "received"
    BY <1>2, SlotsUnchanged DEF Verify
  <2>2. CASE up' = NoUpload
    BY <2>1, <2>2, Withdraws DEF Committed
  <2>3. CASE up' = [up EXCEPT !.state = "verified"]
    <3>1. up'.state = "verified" /\ up'.image = up.image /\ up'.intact = up.intact
      BY <2>3 DEF AtomicInv, OtaIInv, OtaTypeOK
    <3>. QED  BY <2>1, <3>1, Proceeds
  <2>. QED  BY <1>2, <2>2, <2>3 DEF Verify
<1>. QED  BY <1>1, <1>2

(* The erase is not seen, and the write of otadata is the update.          *)
LEMMA OtadataRefines ==
  ASSUME AtomicInv, EraseOtadata \/ WriteOtadata
  PROVE  UpdateStep
<1>. USE DEF AtomicInv, OtaIInv, OtaTypeOK
<1>1. CASE EraseOtadata
  <2>1. /\ up.state = "verified" /\ UNCHANGED <<slot, running>>
        /\ up'.state = "erased" /\ up'.image = up.image /\ up'.intact = up.intact
    BY <1>1 DEF EraseOtadata
  <2>2. Named(seq)' = Named(seq)
    BY <1>1, EraseStep DEF Named, Higher
  <2>3. UNCHANGED <<RunningImage, NextImage>>
    BY <2>1, <2>2 DEF RunningImage, NextImage
  <2>. QED  BY <2>1, <2>3, Proceeds
<1>2. CASE WriteOtadata
  <2>1. /\ up.state = "erased" /\ UNCHANGED <<slot, running>>
        /\ up'.state = "committed" /\ up'.image = up.image /\ up'.intact = up.intact
    BY <1>2 DEF WriteOtadata
  <2>2. Named(seq)' = up.target
    BY <1>2, WriteStep DEF Named, Higher
  <2>3. NextImage' = up.image
    BY <2>1, <2>2 DEF NextImage, ImageInv
  <2>4. Offered = {up.image} /\ Offered' = {up.image} /\ ~Committed /\ Committed' = TRUE
    BY <2>1 DEF IntactInv, Offered, Committed
  <2>5. UNCHANGED RunningImage
    BY <2>1 DEF RunningImage
  <2>. QED
    BY <2>3, <2>4, <2>5
    DEF UpdateStep, Update!Next, Update!Commit, RunningImage, NextImage, Offered, Committed
<1>. QED  BY <1>1, <1>2

LEMMA BootRefines ==
  ASSUME AtomicInv, Reboot \/ PowerLoss \/ Boot
  PROVE  UpdateStep
<1>1. CASE Reboot
  BY <1>1, SlotsUnchanged, StopRefines DEF Reboot
<1>2. CASE PowerLoss
  <2>1. Named(seq)' = Named(seq)
    BY <1>2 DEF PowerLoss, Named, Higher
  <2>2. UNCHANGED NextImage
    <3>1. CASE Writing /\ Holds(Torn)
      <4>1. up.target # Named(seq)
        BY <3>1, NamedAndRunning DEF Writing
      <4>. QED
        BY <2>1, <3>1, <4>1, NamedAndRunning
        DEF Holds, NextImage, AtomicInv, OtaIInv, OtaTypeOK
    <3>2. CASE UNCHANGED slot
      BY <2>1, <3>2 DEF NextImage
    <3>. QED  BY <1>2, <3>1, <3>2 DEF PowerLoss
  <2>. QED  BY <1>2, <2>2, StopRefines DEF PowerLoss
<1>3. CASE Boot
  <2>1. running = Off /\ running' = Named(seq) /\ UNCHANGED <<slot, seq, up>>
    BY <1>3, NamedAndRunning DEF Boot, Bootable, NextImage
  <2>2. running' # Off
    BY <2>1, NamedAndRunning DEF Slot, Off
  <2>3. RunningImage = Torn /\ RunningImage' = NextImage /\ UNCHANGED <<NextImage, Offered, Committed>>
    BY <2>1, <2>2, SlotsUnchanged DEF RunningImage, NextImage, Offered, Committed
  <2>. QED
    BY <2>3 DEF UpdateStep, Update!Next, Update!Boot, RunningImage, NextImage, Offered, Committed
<1>. QED  BY <1>1, <1>2, <1>3

LEMMA OtaStepRefines ==
  ASSUME AtomicInv, OtaStep
  PROVE  UpdateStep
<1>1. CASE \E i \in Uploads, b \in BOOLEAN, n \in Sizes, k \in 0 .. SECTOR - 1 : Begin(i, b, n, k)
  BY <1>1, BeginRefines
<1>2. CASE (\E n \in 1 .. SECTOR : Receive(n)) \/ Flush
  BY <1>2, StoreRefines
<1>3. CASE ReadEnds \/ FlashFails \/ Verify
  BY <1>3, EndRefines
<1>4. CASE EraseOtadata \/ WriteOtadata
  BY <1>4, OtadataRefines
<1>5. CASE Reboot \/ PowerLoss \/ Boot
  BY <1>5, BootRefines
<1>6. CASE UNCHANGED otaVars
  BY <1>6, SlotsUnchanged, UpdateStutters DEF otaVars, Offered, Committed
<1>. QED  BY <1>1, <1>2, <1>3, <1>4, <1>5, <1>6 DEF OtaStep

(* An update is atomic: whatever power losses, lost clients and failures   *)
(* of the flash interrupt it, the next boot runs what ran before or all of *)
(* what was sent, as long as what is sent is an application.               *)
THEOREM UpdatesAreAtomic ==
  ASSUME Uploads \subseteq Apps
  PROVE  Spec => UpdateIsAtomic
<1>1. Init => IntactInv
  BY DEF Init, OtaInit, NoUpload, IntactInv
<1>2. Init => Update!Init
  <2>1. Init => Named(seq) = 0 /\ running = 0 /\ slot[0] \in Apps /\ up.state = "none"
    BY DEF Init, OtaInit, NoUpload, Named, Higher, SeqToPart, Copy, Slot
  <2>. QED  BY <2>1 DEF Update!Init, Off
<1>3. IInv /\ RunInv /\ [Next]_vars => RunInv'
  BY NextIsOtaStep, RunInvStep DEF IInv
<1>4. IInv /\ IntactInv /\ [Next]_vars => IntactInv'
  BY NextIsOtaStep, IntactStep DEF IInv
<1>5. IInv /\ RunInv /\ IntactInv /\ [Next]_vars => [Update!Next]_(Update!vars)
  BY NextIsOtaStep, OtaStepRefines DEF IInv, AtomicInv, UpdateStep
<1>. QED
  BY <1>1, <1>2, <1>3, <1>4, <1>5, RunInvInit, Invariance, PTL
  DEF Spec, UpdateIsAtomic, Update!Spec
=============================================================================
