----------------------------- MODULE HttpServer -----------------------------
(***************************************************************************)
(* webserver_task (src/webserver.rs): one connection at a time, read,      *)
(* dispatched, answered and closed; an update (module Ota) runs inside it, *)
(* and the reboot that ends an update comes when its connection is closed. *)
(*                                                                         *)
(* Power may fail at any moment.  The client and the TCP socket are        *)
(* external.  A live client sends and acknowledges; one that has finished  *)
(* has closed its side, behind what it sent, and still acknowledges; from  *)
(* a silent one nothing comes any more until the socket aborts.            *)
(***************************************************************************)
EXTENDS Ota

VARIABLES conn,   \* where webserver_task is
          client  \* the client of the connection

vars == <<otaVars, conn, client>>

(* listening: in accept(); reading: the first segment has not come;        *)
(* commanding: in relay_tx.send(); uploading: in handle_ota; replying: in  *)
(* write_all() or flush(); closed: after close(), in the delay.            *)
TypeOK == /\ OtaTypeOK
          /\ conn \in {"listening", "reading", "commanding", "uploading", "replying", "closed"}
          /\ client \in {"none", "live", "finished", "silent", "aborted"}

Init == /\ OtaInit
        /\ conn = "listening"
        /\ client = "none"

-----------------------------------------------------------------------------
(* The client and the socket                                               *)

ClientLeaves == /\ client \in {"live", "finished"}
                /\ client' \in {"finished", "silent", "aborted"} \ {client}
                /\ UNCHANGED <<otaVars, conn>>

(* Mutation: the socket has no timeout.                                    *)
NeverTimesOut == FALSE /\ UNCHANGED vars

(* set_timeout()                                                           *)
SocketTimesOut == /\ client = "silent"
                  /\ client' = "aborted"
                  /\ UNCHANGED <<otaVars, conn>>

-----------------------------------------------------------------------------
(* webserver_task and dispatch                                             *)

Accept == /\ running # Off
          /\ conn = "listening"
          /\ conn' = "reading"
          /\ client' = "live"
          /\ UNCHANGED otaVars

(* Something the client has sent can be read.                              *)
Readable == client \in {"live", "finished"}

Request == conn = "reading" /\ Readable

(* read() fails or returns 0, the head is not whole in the first segment,  *)
(* or nothing is served under its path: closed without an answer.          *)
NotServed == /\ conn = "reading"
             /\ client # "silent"
             /\ conn' = "closed"
             /\ UNCHANGED <<otaVars, client>>

(* The page, the status, an update that begin() refuses, and a relay       *)
(* request that has no state in its first segment: an answer, no command.  *)
Answer == /\ Request
          /\ conn' = "replying"
          /\ UNCHANGED <<otaVars, client>>

(* POST /api/relay/<n>/set; the channel may be full.                       *)
Command == /\ Request
           /\ conn' = "commanding"
           /\ UNCHANGED <<otaVars, client>>

CommandSent == /\ conn = "commanding"
               /\ conn' = "replying"
               /\ UNCHANGED <<otaVars, client>>

(* Everything is acknowledged, or the connection is aborted.               *)
Replied == /\ conn = "replying"
           /\ client # "silent"
           /\ conn' = "closed"
           /\ UNCHANGED <<otaVars, client>>

(* The delay is over and no reboot is due.                                 *)
Reaccept == /\ conn = "closed"
            /\ up.state # "committed"
            /\ conn' = "listening"
            /\ client' = "none"
            /\ UNCHANGED otaVars

-----------------------------------------------------------------------------
(* handle_ota                                                              *)

Post == /\ Request
        /\ \E i \in Uploads, b \in BOOLEAN, n \in Sizes, k \in 0 .. SECTOR - 1 : Begin(i, b, n, k)
        /\ conn' = "uploading"
        /\ UNCHANGED client

BodyArrives == /\ conn = "uploading"
               /\ Readable
               /\ \E n \in 1 .. SECTOR : Receive(n)
               /\ UNCHANGED <<conn, client>>

(* "short upload"                                                          *)
BodyEnds == /\ conn = "uploading"
            /\ client = "finished"
            /\ ReadEnds
            /\ conn' = "replying"
            /\ UNCHANGED client

BodyFails == /\ conn = "uploading"
             /\ client = "aborted"
             /\ ReadEnds
             /\ conn' = "closed"
             /\ UNCHANGED client

Store == /\ conn = "uploading"
         /\ Flush \/ EraseOtadata
         /\ UNCHANGED <<conn, client>>

Check == /\ conn = "uploading"
         /\ Verify
         /\ conn' = IF up'.state = "verified" THEN "uploading" ELSE "replying"
         /\ UNCHANGED client

StoreFails == /\ conn = "uploading"
              /\ FlashFails
              /\ conn' = "replying"
              /\ UNCHANGED client

Commit == /\ conn = "uploading"
          /\ WriteOtadata
          /\ conn' = "replying"
          /\ UNCHANGED client

-----------------------------------------------------------------------------
(* The board                                                               *)

Disconnected == /\ conn' = "listening"
                /\ client' = "none"

RebootDue == /\ conn = "closed"
             /\ Reboot
             /\ Disconnected

PowerFails == PowerLoss /\ Disconnected

Boots == Boot /\ UNCHANGED <<conn, client>>

Serve == \/ NotServed \/ Answer \/ Command \/ CommandSent \/ Replied \/ Reaccept
         \/ Post \/ BodyArrives \/ BodyEnds \/ BodyFails \/ Store \/ Check
         \/ StoreFails \/ Commit \/ RebootDue

Next == Accept \/ Serve \/ ClientLeaves \/ SocketTimesOut \/ PowerFails \/ Boots

Spec == Init /\ [][Next]_vars

(* The executor runs webserver_task when it can go on (relay_task, by its  *)
(* own fairness, makes room in the channel), the socket's timeout fires,   *)
(* and the bootloader does its work.                                       *)
FairSpec == Spec /\ WF_vars(Serve) /\ WF_vars(SocketTimesOut) /\ WF_vars(Boots)

-----------------------------------------------------------------------------
(* An update is one step: a power loss, a lost client or a failure of the  *)
(* flash at any point of it leaves the image that ran before, and the      *)
(* reboot that ends it runs all of the image that was sent (ota.rs begin,  *)
(* write, finish; webserver.rs handle_ota).                                *)
Update == INSTANCE AtomicUpdate
            WITH Image <- Apps,
                 Nothing <- Torn,
                 runs <- IF running = Off THEN Torn ELSE slot[running],
                 boots <- slot[Named(seq)],
                 offer <- IF up.state # "none" /\ up.intact THEN {up.image} ELSE {},
                 committed <- up.state = "committed"

UpdateIsAtomic == Update!Spec

(* A committed update is what runs after the reboot, also when the client  *)
(* is gone before it has read the reply (webserver.rs:43-61).              *)
CommittedBoots ==
  \A s \in Slot : (up.state = "committed" /\ up.target = s) ~> (running = s)

(* The single socket always becomes free again, whatever a client does and *)
(* in whatever part of an update it is lost (webserver.rs:33).             *)
ServesAgain == []<>(running # Off /\ conn = "listening")
=============================================================================
