----------------------------- MODULE MCRedirect -----------------------------
(***************************************************************************)
(* An instance of Redirect: a registry on its scheme's port, which a URL   *)
(* may spell out, another service on its host, and a storage host.         *)
(***************************************************************************)
EXTENDS Redirect

CONSTANTS registry, storage

MCRegistry == [scheme |-> "https", host |-> registry, port |-> NoPort, userinfo |-> FALSE]
MCStatuses == {200, 201, 202, 206, 300, 301, 303, 401, 404, 410, 416, 429}
=============================================================================
