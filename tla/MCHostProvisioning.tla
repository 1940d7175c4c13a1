------------------------- MODULE MCHostProvisioning -------------------------
(***************************************************************************)
(* Specs and Secret contents for model checking HostProvisioning.          *)
(***************************************************************************)
EXTENDS HostProvisioning

CONSTANTS s1, v1, v2, v3

Plain == [secret |-> None, registry |-> None, authority |-> None,
          daemonset |-> FALSE]

\* Hosts of a DaemonSet without Secrets, hosts of a Deployment with one Secret
\* for every purpose.
MCSpecs == {[Plain EXCEPT !.daemonset = TRUE],
            [secret |-> s1, registry |-> s1, authority |-> s1, daemonset |-> FALSE]}
\* A config that only switches.
MCSpecsSwitch == {Plain, [Plain EXCEPT !.daemonset = TRUE]}

Useless == [data |-> FALSE, creds |-> None, auths |-> "bad", crt |-> FALSE]
Full == [data |-> TRUE, creds |-> v1, auths |-> "one", crt |-> TRUE]

\* Everything that makes a difference: no data, other credentials and no
\* certificate, no registry, malformed credentials with too many registries.
MCContents == {Useless, Full, [Full EXCEPT !.creds = v2, !.crt = FALSE],
               [Full EXCEPT !.auths = "none"],
               [Full EXCEPT !.creds = v3, !.auths = "many"]}
=============================================================================
