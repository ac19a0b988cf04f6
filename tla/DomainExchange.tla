--------------------------- MODULE DomainExchange ---------------------------
(***************************************************************************)
(* How a request gets the domain its action runs with.  The assistants     *)
(* that call one action server have a domain each, too large to be sent    *)
(* with every request: an assistant sends the digest of its domain, a      *)
(* worker that does not have that domain answers "missing domain" (HTTP    *)
(* 449, gRPC NOT_FOUND), and the request is repeated with the domain       *)
(* (ActionExecutor.update_and_return_domain, rasa_sdk/executor.py, and its *)
(* callers in endpoint.py and grpc_server.py).                             *)
(*                                                                         *)
(* Every worker process has an executor, and so a cache, of its own; from  *)
(* the lookup of the action to its first suspension point the executor     *)
(* does not yield, so that is one step.  The assistants are not part of    *)
(* this repository and are modelled from what the server answers them.     *)
(***************************************************************************)
CONSTANTS
  Client,  \* the assistants
  Legacy,  \* those that know nothing of digests and always send the domain
  Worker,  \* the worker processes of the action server
  Domain,  \* the domains; a digest is represented by the domain it is of
  Empty,   \* the domain {}, which Python takes for false
  None     \* no domain, no digest

ASSUME LegacyAssumption == Legacy \subseteq Client
ASSUME NoneAssumption   == None \notin Domain \cup Worker /\ None # Empty

VARIABLES
  cached,  \* per worker, the executor's domain and domain_digest
  domain,  \* per client, the domain of its model
  stage,   \* per client, how far its request has got
  request, \* per client, what the request carries
  at,      \* per client, the worker that runs its action, or None
  given    \* per client, the domain its action was called with, or None

vars == <<cached, domain, stage, request, at, given>>

Optional == Domain \cup {None}
Held     == Optional \ {Empty}
Nothing  == [domain |-> None, digest |-> None]

\* Every variable keeps its type; in particular no worker ever holds an empty
\* domain or the digest of one (executor.py:755).
TypeOK ==
  /\ cached \in [Worker -> [domain : Held, digest : Held]]
  /\ domain \in [Client -> Domain]
  /\ stage \in [Client -> {"idle", "sent", "running", "missing"}]
  /\ request \in [Client -> [domain : Optional, digest : Optional]]
  /\ at \in [Client -> Worker \cup {None}]
  /\ given \in [Client -> Held]

Init ==
  /\ cached = [w \in Worker |-> Nothing]
  /\ domain \in [Client -> Domain]
  /\ stage = [c \in Client |-> "idle"]
  /\ request = [c \in Client |-> Nothing]
  /\ at = [c \in Client |-> None]
  /\ given = [c \in Client |-> None]

-----------------------------------------------------------------------------
(* The assistants.                                                         *)

\* The assistant loads a model with another domain.
LoadModel(c) ==
  /\ stage[c] = "idle"
  /\ \E d \in Domain : domain' = [domain EXCEPT ![c] = d]
  /\ UNCHANGED <<cached, stage, request, at, given>>

Send(c, d, digest) ==
  /\ stage' = [stage EXCEPT ![c] = "sent"]
  /\ request' = [request EXCEPT ![c] = [domain |-> d, digest |-> digest]]
  /\ UNCHANGED <<cached, domain, at, given>>

\* A request goes out with the digest alone, or with the domain alone.
Call(c) ==
  /\ stage[c] = "idle"
  /\ IF c \in Legacy THEN Send(c, domain[c], None) ELSE Send(c, None, domain[c])

\* "The assistant will retry the request and include the domain."
Retry(c) ==
  /\ stage[c] = "missing"
  /\ Send(c, domain[c], IF c \in Legacy THEN None ELSE domain[c])

-----------------------------------------------------------------------------
(* The workers.                                                            *)

is_domain_digest_valid(w, digest) ==
  cached[w].digest # None /\ cached[w].digest = digest

\* Mutant: a domain that is sent is not enough, the digest must be valid too.
DigestDecides(w, c) == ~is_domain_digest_valid(w, request[c].digest)

MissingDomain(w, c) ==
  /\ ~is_domain_digest_valid(w, request[c].digest)
  /\ request[c].domain = None

\* Mutant: a request without a digest leaves the old digest in place.
KeepDigest(w, c) ==
  [domain |-> IF request[c].domain \notin {None, Empty} THEN request[c].domain
              ELSE cached[w].domain,
   digest |-> IF request[c].digest # None THEN request[c].digest
              ELSE cached[w].digest]

\* Mutant: whatever the request carries is stored, as long as it has a domain.
StoreEmpty(w, c) == IF request[c].domain # None THEN request[c] ELSE cached[w]

\* What the cache holds after the request: `if payload_domain` is false for
\* no domain and for an empty one.
Stored(w, c) ==
  IF request[c].domain \notin {None, Empty} THEN request[c] ELSE cached[w]

\* The requests of `clients` are answered, or lost, and forgotten.
Forget(clients) ==
  /\ stage' = [c \in Client |-> IF c \in clients THEN "idle" ELSE stage[c]]
  /\ request' = [c \in Client |-> IF c \in clients THEN Nothing ELSE request[c]]
  /\ at' = [c \in Client |-> IF c \in clients THEN None ELSE at[c]]
  /\ given' = [c \in Client |-> IF c \in clients THEN None ELSE given[c]]
  /\ UNCHANGED domain

\* Unknown action or no tracker: found out before the domain is looked at.
LookupFails(c) ==
  /\ stage[c] = "sent"
  /\ Forget({c})
  /\ UNCHANGED cached

\* 449 or NOT_FOUND: the worker does not have this domain.
AnswerMissing(w, c) ==
  /\ stage[c] = "sent"
  /\ MissingDomain(w, c)
  /\ stage' = [stage EXCEPT ![c] = "missing"]
  /\ UNCHANGED <<cached, domain, request, at, given>>

\* The cache is brought up to date and the action is called with its content.
RunAction(w, c) ==
  /\ stage[c] = "sent"
  /\ ~MissingDomain(w, c)
  /\ cached' = [cached EXCEPT ![w] = Stored(w, c)]
  /\ given' = [given EXCEPT ![c] = Stored(w, c).domain]
  /\ at' = [at EXCEPT ![c] = w]
  /\ stage' = [stage EXCEPT ![c] = "running"]
  /\ UNCHANGED <<domain, request>>

\* The action returns or raises; either way the request is answered.
Answer(c) ==
  /\ stage[c] = "running"
  /\ Forget({c})
  /\ UNCHANGED cached

\* A worker dies with the actions it runs and is started again.
Restart(w) ==
  /\ cached' = [cached EXCEPT ![w] = Nothing]
  /\ Forget({c \in Client : at[c] = w})

-----------------------------------------------------------------------------
Handle(c) == \E w \in Worker : AnswerMissing(w, c) \/ RunAction(w, c)

Next ==
  \/ \E c \in Client :
       LoadModel(c) \/ Call(c) \/ Retry(c) \/ LookupFails(c) \/ Handle(c) \/ Answer(c)
  \/ \E w \in Worker : Restart(w)

Spec == Init /\ [][Next]_vars

\* A request that was sent is handled, and an assistant told that the domain is
\* missing repeats the request.  Restarts may come as often as they like.
FairSpec == Spec /\ \A c \in Client : WF_vars(Handle(c)) /\ WF_vars(Retry(c))

-----------------------------------------------------------------------------
\* A worker that would accept a digest has the domain the digest is of; after a
\* request without a digest it accepts none (executor.py:712-723, 755-757).
CacheIsCoherent ==
  \A w \in Worker :
    cached[w].digest # None => cached[w].domain = cached[w].digest

\* An action runs with the domain of the assistant that called it, whoever else
\* uses the same workers, old assistants or new, and whenever workers restart;
\* except for an assistant whose domain is empty (executor.py:745-759).
RunsWithOwnDomain ==
  \A c \in Client :
    (stage[c] = "running" /\ domain[c] # Empty) => given[c] = domain[c]

\* No request is sent to and fro for ever between an assistant and workers that
\* all miss its domain: in the end the action is called, or cannot be found
\* (executor.py:748-753, endpoint.py:165-168).
RequestsAreHandled ==
  \A c \in Client : stage[c] = "sent" ~> stage[c] \in {"running", "idle"}

=============================================================================
