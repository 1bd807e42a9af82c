---------------------------- MODULE MCSecureEditors ----------------------------
(* Two vaults. The first holds a host with an encrypted key, its passphrase and a  *)
(* port forward; the second is the default target and starts empty.                *)
EXTENDS SecureEditors, TLC

CONSTANTS v1, v2, h1, h2, c1, c2, k1, k2, t1, t2

MCVaultOf == [x \in {h1, c1, c2, k2, t1, t2} |-> v1] @@ [x \in {h2, k1} |-> v2]

MCStored ==
  [hosts |-> [h \in {h1} |-> <<PrivateKey(k2, c1)>>], creds |-> {c1}, keys |-> {k2},
   tunnels |-> [t \in {t1} |-> [host |-> h1, ep |-> "local"]]]
=============================================================================
