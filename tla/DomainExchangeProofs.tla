------------------------ MODULE DomainExchangeProofs ------------------------
(***************************************************************************)
(* That an action runs with the domain of its own assistant, for any       *)
(* number of assistants, workers and domains.                              *)
(*                                                                         *)
(* RunsWithOwnDomain is not inductive: what an action is given comes from  *)
(* the cache of its worker, so the caches have to be coherent, and from a  *)
(* request, so a request has to carry its assistant's own domain.          *)
(***************************************************************************)
EXTENDS DomainExchange, TLAPS

\* A request carries the domain of its assistant, or its digest, or both.
RequestIsOwn(c) ==
  /\ request[c].domain \in {None, domain[c]}
  /\ request[c].digest \in {None, domain[c]}
  /\ request[c].domain = None => request[c].digest = domain[c]

RequestsAreOwn ==
  \A c \in Client : stage[c] \in {"sent", "running"} => RequestIsOwn(c)

Inv == TypeOK /\ CacheIsCoherent /\ RequestsAreOwn /\ RunsWithOwnDomain

USE NoneAssumption

\* Forgetting some requests changes nothing for the others.
LEMMA ForgetKeepsInv ==
  ASSUME Inv, NEW clients, Forget(clients), UNCHANGED cached
  PROVE  Inv'
<1>1. \A c \in Client : stage'[c] # "idle" =>
        /\ stage'[c] = stage[c] /\ request'[c] = request[c]
        /\ domain'[c] = domain[c] /\ given'[c] = given[c]
  BY DEF Forget
<1>2. TypeOK'
  BY None \in Held DEF Inv, TypeOK, Forget, Nothing, Optional, Held
<1>3. CacheIsCoherent'
  BY DEF Inv, CacheIsCoherent
<1>4. RequestsAreOwn'
  BY <1>1 DEF Inv, RequestsAreOwn, RequestIsOwn
<1>5. RunsWithOwnDomain'
  BY <1>1 DEF Inv, RunsWithOwnDomain
<1> QED
  BY <1>2, <1>3, <1>4, <1>5 DEF Inv

\* Sending a request that is the client's own keeps the invariant.
LEMMA SendKeepsInv ==
  ASSUME Inv, NEW c \in Client, NEW d, NEW digest, Send(c, d, digest),
         d \in {None, domain[c]}, digest \in {None, domain[c]},
         d = None => digest = domain[c]
  PROVE  Inv'
<1>1. domain[c] \in Domain
  BY DEF Inv, TypeOK
<1>2. TypeOK'
  BY <1>1 DEF Inv, TypeOK, Send, Optional
<1>3. CacheIsCoherent'
  BY DEF Inv, CacheIsCoherent, Send
<1>4. RequestsAreOwn'
  <2> SUFFICES ASSUME NEW b \in Client, stage'[b] \in {"sent", "running"}
               PROVE  RequestIsOwn(b)'
    BY DEF RequestsAreOwn
  <2>1. CASE b = c
    BY <2>1 DEF RequestIsOwn, Send, Inv, TypeOK
  <2>2. CASE b # c
    BY <2>2 DEF RequestIsOwn, RequestsAreOwn, Send, Inv, TypeOK
  <2> QED
    BY <2>1, <2>2
<1>5. RunsWithOwnDomain'
  BY DEF RunsWithOwnDomain, Send, Inv, TypeOK
<1> QED
  BY <1>2, <1>3, <1>4, <1>5 DEF Inv

\* What a worker stores for a request it accepts is coherent, and is the domain
\* of the assistant that sent the request unless that domain is empty.
LEMMA StoredIsOwn ==
  ASSUME Inv, NEW w \in Worker, NEW c \in Client, stage[c] = "sent",
         ~MissingDomain(w, c)
  PROVE  /\ Stored(w, c) \in [domain : Held, digest : Held]
         /\ Stored(w, c).digest # None => Stored(w, c).domain = Stored(w, c).digest
         /\ domain[c] # Empty => Stored(w, c).domain = domain[c]
<1>1. RequestIsOwn(c)
  BY DEF Inv, RequestsAreOwn
<1>2. /\ request[c] \in [domain : Optional, digest : Optional]
      /\ cached[w] \in [domain : Held, digest : Held]
      /\ domain[c] \in Domain
      /\ cached[w].digest # None => cached[w].domain = cached[w].digest
  BY DEF Inv, TypeOK, CacheIsCoherent
<1>3. CASE request[c].domain \notin {None, Empty}
  BY <1>1, <1>2, <1>3 DEF Stored, RequestIsOwn, Held, Optional
<1>4. CASE request[c].domain = None
  BY <1>1, <1>2, <1>4 DEF Stored, RequestIsOwn, MissingDomain, is_domain_digest_valid
<1>5. CASE request[c].domain = Empty
  BY <1>1, <1>2, <1>5 DEF Stored, RequestIsOwn
<1> QED
  BY <1>3, <1>4, <1>5

\* Every step keeps the invariant.
LEMMA InvStep == Inv /\ [Next]_vars => Inv'
<1> SUFFICES ASSUME Inv, [Next]_vars PROVE Inv'
  OBVIOUS
<1>1. ASSUME NEW c \in Client, LoadModel(c) PROVE Inv'
  BY <1>1 DEF LoadModel, Inv, TypeOK, CacheIsCoherent, RequestsAreOwn, RequestIsOwn,
              RunsWithOwnDomain
<1>2. ASSUME NEW c \in Client, Call(c) \/ Retry(c) PROVE Inv'
  BY <1>2, SendKeepsInv DEF Call, Retry
<1>3. ASSUME NEW c \in Client, LookupFails(c) \/ Answer(c) PROVE Inv'
  BY <1>3, ForgetKeepsInv DEF LookupFails, Answer
<1>4. ASSUME NEW c \in Client, NEW w \in Worker, AnswerMissing(w, c) PROVE Inv'
  BY <1>4 DEF AnswerMissing, Inv, TypeOK, CacheIsCoherent, RequestsAreOwn, RequestIsOwn,
              RunsWithOwnDomain
<1>5. ASSUME NEW c \in Client, NEW w \in Worker, RunAction(w, c) PROVE Inv'
  <2>1. /\ Stored(w, c) \in [domain : Held, digest : Held]
        /\ Stored(w, c).digest # None => Stored(w, c).domain = Stored(w, c).digest
        /\ domain[c] # Empty => Stored(w, c).domain = domain[c]
    BY <1>5, StoredIsOwn DEF RunAction
  <2>2. TypeOK'
    BY <1>5, <2>1 DEF RunAction, Inv, TypeOK
  <2>3. CacheIsCoherent'
    BY <1>5, <2>1 DEF RunAction, Inv, TypeOK, CacheIsCoherent
  <2>4. RequestsAreOwn'
    BY <1>5 DEF RunAction, Inv, TypeOK, RequestsAreOwn, RequestIsOwn
  <2>5. RunsWithOwnDomain'
    BY <1>5, <2>1 DEF RunAction, Inv, TypeOK, RunsWithOwnDomain
  <2> QED
    BY <2>2, <2>3, <2>4, <2>5 DEF Inv
<1>6. ASSUME NEW w \in Worker, Restart(w) PROVE Inv'
  <2>1. /\ cached' = [cached EXCEPT ![w] = Nothing]
        /\ Forget({c \in Client : at[c] = w})
    BY <1>6 DEF Restart
  <2>2. \A c \in Client : stage'[c] # "idle" =>
          /\ stage'[c] = stage[c] /\ request'[c] = request[c]
          /\ domain'[c] = domain[c] /\ given'[c] = given[c]
    BY <2>1 DEF Forget
  <2>3. TypeOK'
    BY <2>1, None \in Held DEF Inv, TypeOK, Forget, Nothing, Optional, Held
  <2>4. CacheIsCoherent'
    BY <2>1 DEF Inv, TypeOK, CacheIsCoherent, Nothing
  <2>5. RequestsAreOwn' /\ RunsWithOwnDomain'
    BY <2>2 DEF Inv, RequestsAreOwn, RequestIsOwn, RunsWithOwnDomain
  <2> QED
    BY <2>3, <2>4, <2>5 DEF Inv
<1>7. CASE UNCHANGED vars
  BY <1>7 DEF vars, Inv, TypeOK, CacheIsCoherent, RequestsAreOwn, RequestIsOwn,
              RunsWithOwnDomain
<1> QED
  BY <1>1, <1>2, <1>3, <1>4, <1>5, <1>6, <1>7 DEF Next, Handle

\* The invariant holds in every state.
LEMMA InvHolds == Spec => []Inv
<1>1. Init => Inv
  BY None \in Held DEF Init, Inv, TypeOK, CacheIsCoherent, RequestsAreOwn, RunsWithOwnDomain,
                       Nothing, Optional, Held
<1> QED
  BY <1>1, InvStep, PTL DEF Spec

\* Every variable of the domain exchange keeps its type: no worker ever holds an
\* empty domain.
THEOREM ExchangeTypeCorrect == Spec => []TypeOK
BY InvHolds, PTL DEF Inv

\* A worker that accepts a digest has the domain the digest is of.
THEOREM CacheIsCoherentHolds == Spec => []CacheIsCoherent
BY InvHolds, PTL DEF Inv

\* An action runs with the domain of the assistant that called it.
THEOREM RunsWithOwnDomainHolds == Spec => []RunsWithOwnDomain
BY InvHolds, PTL DEF Inv

=============================================================================
