------------------------- MODULE ApplicationRequests -------------------------
(***************************************************************************)
(* What the application API promises: what requests may do to the          *)
(* applications wadm keeps, and what their answers mean, with nothing said *)
(* of handlers, host configs, connections, credentials or locks.           *)
(***************************************************************************)
EXTENDS Naturals

CONSTANTS Namespaces, Lattices, Apps, Requests, None

VARIABLES
  requests,  \* what each request asks for, while it is not answered
  answers,   \* the last answer to each request
  reach,     \* (namespace, lattice): lattices a namespace has been given
  store,     \* versions of each application of a lattice
  running,   \* number of the deployed version, or 0
  clock      \* numbers requests and versions

vars == <<requests, answers, reach, store, running, clock>>
-----------------------------------------------------------------------------
Keys == Lattices \X Apps
Lists == {"list", "list_all"}
Puts == {"create", "patch"}

\* num: the version the request has stored, or 0.
Nothing == [id |-> 0, op |-> None, ns |-> None, app |-> None, num |-> 0]

Init ==
  /\ requests = [r \in Requests |-> Nothing]
  /\ answers = [r \in Requests |-> "none"]
  /\ reach \subseteq Namespaces \X Lattices
  /\ store = [k \in Keys |-> {[num |-> 1, by |-> 0, base |-> 0]}]
  /\ running = [k \in Keys |-> 1]
  /\ clock = 1

\* A namespace is given lattices.
Give ==
  /\ reach \subseteq reach' /\ reach' \subseteq Namespaces \X Lattices
  /\ UNCHANGED <<requests, answers, store, running, clock>>

Ask(r) ==
  /\ requests[r] = Nothing
  /\ clock' = clock + 1
  /\ \E op \in Lists \cup Puts \cup {"get", "delete"},
        ns \in Namespaces \cup {None}, a \in Apps \cup {None} :
       requests' = [requests EXCEPT ![r] =
         [id |-> clock + 1, op |-> op, ns |-> ns, app |-> a, num |-> 0]]
  /\ answers' = [answers EXCEPT ![r] = "none"]
  /\ UNCHANGED <<reach, store, running>>

Reply(r, answer) ==
  /\ requests' = [requests EXCEPT ![r] = Nothing]
  /\ answers' = [answers EXCEPT ![r] = answer]

\* The application that r is about, in lattice l of its namespace.
At(r, l) == <<l, requests[r].app>>
Mine(r, l) == <<requests[r].ns, l>> \in reach

\* A request that changes nothing any more.  No error but "not found" says
\* anything: that one says that the application is not there, or that the
\* version the request has stored is not, and that nothing of it is left.
Finish(r, answer) ==
  /\ requests[r].op # None
  /\ answer = "200" =>
       \/ requests[r].op \in Lists
       \/ requests[r].op = "get" /\ \E l \in Lattices : Mine(r, l) /\ store[At(r, l)] # {}
  /\ answer = "404" =>
       /\ requests[r].op \in {"get", "patch"}
       /\ requests[r].num = 0
            => \E l \in Lattices : Mine(r, l) /\ store[At(r, l)] = {}
       /\ \A k \in Keys : \A v \in store[k] : v.by # requests[r].id
  /\ answer = "blank" => requests[r].op \in Lists
  /\ Reply(r, answer)
  /\ UNCHANGED <<reach, store, running, clock>>

\* One request stores one version, in a lattice of its namespace.  A patch is
\* made from one that is no older than any that was there when it was asked for.
Put(r, l) ==
  /\ requests[r].op \in Puts /\ requests[r].num = 0 /\ Mine(r, l)
  /\ clock' = clock + 1
  /\ \E base \in 0..clock :
       /\ base = 0 <=> requests[r].op = "create"
       /\ requests[r].op = "patch" =>
            \A w \in store[At(r, l)] : w.num < requests[r].id => w.num <= base
       /\ store' = [store EXCEPT ![At(r, l)] = @ \cup
            {[num |-> clock + 1, by |-> requests[r].id, base |-> base]}]
  /\ \/ /\ requests' = [requests EXCEPT ![r].num = clock + 1]
        /\ UNCHANGED answers
     \/ Reply(r, "500")
  /\ UNCHANGED <<reach, running>>

\* It deploys that version and no other, if nobody has deleted it.
Deploy(r, l) ==
  /\ requests[r].op \in Puts /\ Mine(r, l)
  /\ \E v \in store[At(r, l)] : v.num = requests[r].num /\ v.by = requests[r].id
  /\ running' = [running EXCEPT ![At(r, l)] = requests[r].num]
  /\ Reply(r, "200") \/ Reply(r, "500")
  /\ UNCHANGED <<reach, store, clock>>

\* A deletion takes all versions; the answer says whether there were any.
Delete(r, l) ==
  /\ requests[r].op = "delete" /\ Mine(r, l)
  /\ store' = [store EXCEPT ![At(r, l)] = {}]
  /\ running' = [running EXCEPT ![At(r, l)] = 0]
  /\ \/ Reply(r, IF store[At(r, l)] = {} THEN "404" ELSE "200")
     \/ Reply(r, "500")
  /\ UNCHANGED <<reach, clock>>

\* The operator is restarted.
Lose ==
  /\ requests' = [r \in Requests |-> Nothing]
  /\ answers' = [r \in Requests |->
       IF requests[r].op = None THEN answers[r] ELSE "panic"]
  /\ UNCHANGED <<reach, store, running, clock>>

Next ==
  \/ Give \/ Lose
  \/ \E r \in Requests :
       \/ Ask(r)
       \/ \E answer \in {"200", "blank", "404", "500", "panic"} : Finish(r, answer)
       \/ \E l \in Lattices : Put(r, l) \/ Deploy(r, l) \/ Delete(r, l)

Spec == Init /\ [][Next]_vars
=============================================================================
