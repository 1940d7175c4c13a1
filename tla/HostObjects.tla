----------------------------- MODULE HostObjects -----------------------------
(***************************************************************************)
(* What the operator promises about the objects it keeps for each host     *)
(* config, with nothing said of reconciliations, their calls, Secrets or   *)
(* failures: when an object may be applied, what must be there already,    *)
(* and when an object, a status or cached credentials may go.              *)
(***************************************************************************)
EXTENDS Naturals

CONSTANTS Configs, Kinds, Prerequisites, HostKinds

VARIABLES
  uid,       \* the incarnation of each config that is there, or 0
  last,      \* incarnations so far
  guarded,   \* configs with the operator's finalizer
  doomed,    \* configs that are deleted, but for the finalizer
  owners,    \* by config and kind: the owner of the object there is, or none
  reported,  \* configs with a status
  cached     \* configs whose credentials are cached

vars == <<uid, last, guarded, doomed, owners, reported, cached>>
-----------------------------------------------------------------------------
Owns(c, k) == uid[c] # 0 /\ uid[c] \in owners[c][k]
Ready(c) == \A k \in Prerequisites : Owns(c, k)
Running(c) == \E k \in HostKinds : Owns(c, k)

Init ==
  /\ uid = [c \in Configs |-> 0] /\ last = uid
  /\ guarded = {} /\ doomed = {} /\ reported = {} /\ cached = {}
  /\ owners = [c \in Configs |-> [k \in Kinds |-> {}]]

\* A config that is created again is another one.
Create(c) ==
  /\ uid[c] = 0
  /\ last' = [last EXCEPT ![c] = @ + 1]
  /\ uid' = [uid EXCEPT ![c] = last[c] + 1]
  /\ UNCHANGED <<guarded, doomed, owners, reported, cached>>

Guard(c) ==
  /\ uid[c] # 0 /\ c \notin doomed
  /\ guarded' = guarded \cup {c}
  /\ UNCHANGED <<uid, last, doomed, owners, reported, cached>>

\* A config goes with its status, and leaves its objects to the garbage
\* collector and no credentials behind.
Gone(c) ==
  /\ c \notin cached
  /\ uid' = [uid EXCEPT ![c] = 0]
  /\ guarded' = guarded \ {c}
  /\ doomed' = doomed \ {c}
  /\ reported' = reported \ {c}
  /\ UNCHANGED <<last, owners, cached>>

Delete(c) ==
  \/ uid[c] # 0 /\ c \notin guarded /\ Gone(c)
  \/ /\ c \in guarded \ doomed
     /\ doomed' = doomed \cup {c}
     /\ UNCHANGED <<uid, last, guarded, owners, reported, cached>>

Release(c) == c \in doomed \cap guarded /\ Gone(c)

\* An object is applied for the incarnation that is there, and only while the
\* finalizer keeps it from going: hosts once they have all they need, and their
\* Service once there are hosts.
Apply(c, k) ==
  /\ uid[c] # 0 /\ c \in guarded
  /\ k \in HostKinds => Ready(c)
  /\ k \notin HostKinds \cup Prerequisites => Ready(c) /\ Running(c)
  /\ owners' = [owners EXCEPT ![c][k] = {uid[c]}]
  /\ UNCHANGED <<uid, last, guarded, doomed, reported, cached>>

\* A status says that everything is there.
Report(c) ==
  /\ c \in guarded /\ Ready(c) /\ Running(c)
  /\ \A k \in Kinds \ HostKinds : Owns(c, k)
  /\ reported' = reported \cup {c}
  /\ UNCHANGED <<uid, last, guarded, doomed, owners, cached>>

\* An object goes when the incarnation it is owned by has gone, and stays with
\* it until then.
Collect(c, k) ==
  /\ ~Owns(c, k)
  /\ owners' = [owners EXCEPT ![c][k] = {}]
  /\ UNCHANGED <<uid, last, guarded, doomed, reported, cached>>

\* Credentials are cached under the finalizer, and may be forgotten.
Remember(c) ==
  /\ c \in guarded
  /\ cached' = cached \cup {c}
  /\ UNCHANGED <<uid, last, guarded, doomed, owners, reported>>

Forget ==
  /\ cached' \subseteq cached
  /\ UNCHANGED <<uid, last, guarded, doomed, owners, reported>>

Next ==
  \/ Forget
  \/ \E c \in Configs :
       \/ Create(c) \/ Guard(c) \/ Delete(c) \/ Release(c)
       \/ Report(c) \/ Remember(c)
       \/ \E k \in Kinds : Apply(c, k) \/ Collect(c, k)

Spec == Init /\ [][Next]_vars
=============================================================================
