----------------------------- MODULE Idempotency -----------------------------
(***************************************************************************)
(* POST /messages under one X-Idempotency-Key: create_message with         *)
(* IdempotencyService.  An attempt is one HTTP request with the key, a     *)
(* client's retry or double click; attempts run on any pod.  What send()   *)
(* does is in Turn; here it stores the attempt's message or raises.        *)
(***************************************************************************)
EXTENDS Naturals, FiniteSets

CONSTANTS
    Attempts,
    FaultKinds      \* what may go wrong besides crashes

ASSUME FaultsAssumption == FaultKinds \subseteq {"redis", "send", "applied", "expiry"}
ASSUME EntryValues == {"none", "processing"} \cap Attempts = {}

VARIABLES
    entry,      \* the Redis value: none, processing, or the cached message
    messages,   \* attempts whose message is stored and dispatched
    apc,        \* per attempt: the next step, or how it ended
    answer,     \* per attempt: the message its 202 names
    mishaps     \* history: what went wrong so far, apart from crashes

keyVars == <<entry, messages, apc, answer, mishaps>>

AttemptSteps == {"claim", "get", "send", "save", "evict",
                 "accepted", "conflict", "failed", "dead"}

KeyTypeOK ==
    /\ entry \in {"none", "processing"} \cup Attempts
    /\ messages \in SUBSET Attempts
    /\ apc \in [Attempts -> AttemptSteps]
    /\ answer \in [Attempts -> Attempts \cup {"none"}]
    /\ mishaps \subseteq {"redis", "send", "applied", "expiry"}

KeyInit ==
    /\ entry = "none"
    /\ messages = {}
    /\ apc = [a \in Attempts |-> "claim"]
    /\ answer = [a \in Attempts |-> "none"]
    /\ mishaps = {}

Step(a, step) == apc' = [apc EXCEPT ![a] = step]
Smoothly == UNCHANGED mishaps
Mishap(fault) == fault \in FaultKinds /\ mishaps' = mishaps \cup {fault}

-----------------------------------------------------------------------------
\* Mutant: an attempt that finds the key reserved goes on.
ClaimUnread(a) ==
    /\ apc[a] = "claim"
    /\ entry' = IF entry = "none" THEN "processing" ELSE entry
    /\ Step(a, IF entry \in Attempts THEN "get" ELSE "send")
    /\ UNCHANGED <<messages, answer, mishaps>>

\* claim_key: SET NX; a Redis error lets the request through.
Claim(a) ==
    /\ apc[a] = "claim"
    /\ \/ entry = "none" /\ entry' = "processing" /\ Step(a, "send") /\ Smoothly
       \/ entry # "none" /\ UNCHANGED entry /\ Step(a, "get") /\ Smoothly
       \/ /\ Mishap("redis")
          /\ entry' \in IF entry = "none" THEN {"none", "processing"} ELSE {entry}
          /\ Step(a, "send")
    /\ UNCHANGED <<messages, answer>>

\* claim_key: the GET after a lost SET NX.  A key that is gone by then reads
\* as None, the same as a claim that was won.
Get(a) ==
    /\ apc[a] = "get"
    /\ \/ /\ (entry = "none" /\ Smoothly) \/ Mishap("redis")
          /\ Step(a, "send")
          /\ UNCHANGED answer
       \/ /\ entry = "processing" /\ Smoothly
          /\ Step(a, "conflict")
          /\ UNCHANGED answer
       \/ /\ entry \in Attempts /\ Smoothly
          /\ Step(a, "accepted")
          /\ answer' = [answer EXCEPT ![a] = entry]
    /\ UNCHANGED <<entry, messages>>

\* service.send: it stores the message, or raises before or after that.
SendOnce(a) ==
    /\ apc[a] = "send"
    /\ \/ messages' = messages \cup {a} /\ Step(a, "save") /\ Smoothly
       \/ UNCHANGED messages /\ Step(a, "evict") /\ Mishap("send")
       \/ messages' = messages \cup {a} /\ Step(a, "evict") /\ Mishap("applied")
    /\ UNCHANGED <<entry, answer>>

\* save_response: an unconditional SET; an error is swallowed.
Save(a) ==
    /\ apc[a] = "save"
    /\ \/ entry' = a /\ Smoothly
       \/ UNCHANGED entry /\ Mishap("redis")
    /\ Step(a, "accepted")
    /\ answer' = [answer EXCEPT ![a] = a]
    /\ UNCHANGED messages

\* Mutant: the response is cached on the failure path too.
EvictSaves(a) ==
    /\ apc[a] = "evict"
    /\ entry' = a
    /\ Step(a, "failed")
    /\ UNCHANGED <<messages, answer, mishaps>>

\* remove_lock: an unconditional DEL; an error is swallowed.
Evict(a) ==
    /\ apc[a] = "evict"
    /\ \/ entry' = "none" /\ Smoothly
       \/ UNCHANGED entry /\ Mishap("redis")
    /\ Step(a, "failed")
    /\ UNCHANGED <<messages, answer>>

\* The pod of an attempt dies.
Die(a) ==
    /\ apc[a] \in {"claim", "get", "send", "save", "evict"}
    /\ Step(a, "dead")
    /\ UNCHANGED <<entry, messages, answer, mishaps>>

\* IDEMPOTENCY_TTL_SECONDS after the last SET.
Expire ==
    /\ entry # "none"
    /\ entry' = "none"
    /\ Mishap("expiry")
    /\ UNCHANGED <<messages, apc, answer>>

KeyNext ==
    \/ \E a \in Attempts : Claim(a) \/ Get(a) \/ SendOnce(a) \/ Save(a) \/ Evict(a) \/ Die(a)
    \/ Expire

KeySpec == KeyInit /\ [][KeyNext]_keyVars

-----------------------------------------------------------------------------
\* One key, one message, however many requests race and wherever pods die,
\* until a send raises, Redis fails or the key expires.
AtMostOneMessage == mishaps = {} => \A a, b \in messages : a = b

\* Every 202, replayed from the cache or fresh, names a stored message.
AnswersAreStored == \A a \in Attempts : apc[a] = "accepted" => answer[a] \in messages

\* Until then, any two requests that are accepted under the key get the
\* same message.
AnswersAgree ==
    mishaps = {} =>
        \A a, b \in Attempts : apc[a] = "accepted" /\ apc[b] = "accepted" => answer[a] = answer[b]
=============================================================================
