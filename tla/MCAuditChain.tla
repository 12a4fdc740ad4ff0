---------------------------- MODULE MCAuditChain ----------------------------
(* Three concurrent calls of record(), two of them with the same payload.   *)
EXTENDS AuditChain, TLC

CONSTANTS c1, c2, c3, login, suspend

MCPayloadOf == (c1 :> login) @@ (c2 :> login) @@ (c3 :> suspend)
=============================================================================
