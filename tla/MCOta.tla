------------------------------- MODULE MCOta --------------------------------
(* HttpServer with images of up to three sectors of two bytes.             *)
EXTENDS HttpServer

CONSTANTS v1, v2, notAnApp

TwoApps  == {v1, v2}
AnyFile  == {v1, notAnApp}
OneToFive == 1 .. 5
=============================================================================
