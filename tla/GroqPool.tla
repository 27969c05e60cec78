------------------------------ MODULE GroqPool ------------------------------
(***************************************************************************)
(* GroqProviderPool and GroqProvider.reason of ai_reasoning/provider.py:   *)
(* concurrent analysis requests are routed over the accounts in rotation.  *)
(* An account that refuses or keeps failing gets a cooldown; a request     *)
(* goes on to the next account after some failures and ends on others.     *)
(* One process; what a vendor answers is open.                             *)
(***************************************************************************)
EXTENDS Naturals, Sequences

CONSTANTS
  Accounts,        \* the configured accounts, a sequence
  Requests,        \* analyses that one process runs concurrently
  NoAccount,
  MaximumRetries,  \* groq_max_retries_per_account
  Threshold        \* circuit_failure_threshold

Names == { Accounts[i] : i \in 1..Len(Accounts) }

(* What the constants are, assumed where they get their values. *)
PoolAssumption ==
  /\ Accounts \in Seq(Names) /\ Accounts # << >>
  /\ NoAccount \notin Names
  /\ MaximumRetries \in Nat /\ Threshold \in Nat \ {0}

VARIABLES
  cursor,    \* _rotation_cursor
  cooldown,  \* circuit_open_until: "none", "running", or "over" but not yet cleared
  recent,    \* recent_failures, as far as they are below the threshold
  request    \* where each request is, and with what

vars == <<cursor, cooldown, recent, request>>

(* passed: accounts to be routed to whose deadline lay behind when the      *)
(* request read the clock; calls, compacts: its HTTP calls and compact      *)
(* retries at the account where it is.                                      *)
Routing == [pc |-> "route", left |-> << >>, at |-> NoAccount, try |-> 0, passed |-> {},
            calls |-> 0, compacts |-> 0]
Ended == [Routing EXCEPT !.pc = "ended"]

At(r, pc) == request[r].pc = pc
Rotated(k) == SubSeq(Accounts, k + 1, Len(Accounts)) \o SubSeq(Accounts, 1, k)

-----------------------------------------------------------------------------
(* Routing.                                                                 *)

(* The clock is read once for all accounts.                                 *)
Start(r) ==
  /\ At(r, "ended")
  /\ cursor' = (cursor + 1) % Len(Accounts)
  /\ request' = [request EXCEPT ![r] =
       [Routing EXCEPT !.left = Rotated(cursor),
                       !.passed = { a \in Names : cooldown[a] = "over" }]]
  /\ UNCHANGED <<cooldown, recent>>

Eligible_Always(r, a) == TRUE       \* deviation: the deadline is not compared
Eligible(r, a) == cooldown[a] = "none" \/ (cooldown[a] = "over" /\ a \in request[r].passed)

(* A cooldown that is over is cleared by whoever looks: a request here, the *)
(* dashboard's metadata() below.                                            *)
Route(r) ==
  LET a == Head(request[r].left)
      next == [request[r] EXCEPT !.left = Tail(@), !.passed = @ \ {a}]
  IN /\ At(r, "route") /\ request[r].left # << >>
     /\ IF Eligible(r, a)
          THEN /\ request' = [request EXCEPT ![r] = [next EXCEPT !.pc = "call", !.at = a, !.try = 1]]
               /\ cooldown' = [cooldown EXCEPT ![a] = "none"]
          ELSE /\ request' = [request EXCEPT ![r] = next]
               /\ UNCHANGED cooldown
     /\ UNCHANGED <<cursor, recent>>

(* The last error is raised, or provider_pool_unavailable.                  *)
Exhaust(r) ==
  /\ At(r, "route") /\ request[r].left = << >>
  /\ request' = [request EXCEPT ![r] = Ended]
  /\ UNCHANGED <<cursor, cooldown, recent>>

Metadata ==
  /\ \E a \in Names : cooldown[a] = "over"
  /\ cooldown' = [a \in Names |-> IF cooldown[a] = "over" THEN "none" ELSE cooldown[a]]
  /\ UNCHANGED <<cursor, recent, request>>

-----------------------------------------------------------------------------
(* What an answer does to the account.                                      *)

(* _success and _policy_failure: the account is fine, whatever another      *)
(* request has learned of it since this one was sent.                       *)
Healthy(a) ==
  /\ cooldown' = [cooldown EXCEPT ![a] = "none"]
  /\ UNCHANGED recent

(* _failure with rate limit, quota or configuration: a cooldown at once.    *)
Counted(a) == [recent EXCEPT ![a] = IF @ + 1 < Threshold THEN @ + 1 ELSE @]

Refused(a) ==
  /\ recent' = Counted(a)
  /\ cooldown' = [cooldown EXCEPT ![a] = "running"]

(* _failure with anything else: a cooldown from the threshold on; below it  *)
(* the account is open again, even if it had one.                           *)
Opens(a) == recent[a] + 1 >= Threshold
Failed(a) ==
  /\ recent' = Counted(a)
  /\ cooldown' = [cooldown EXCEPT ![a] = IF Opens(a) THEN "running" ELSE "none"]

(* A request that is still to be routed read the clock before this cooldown *)
(* began, so it never sees it over.                                         *)
Forgotten(a) == [s \in Requests |-> [request[s] EXCEPT !.passed = @ \ {a}]]

NextAccount(r) ==
  LET f == Forgotten(request[r].at)
  IN request' = [f EXCEPT ![r] = [Routing EXCEPT !.left = f[r].left, !.passed = f[r].passed]]
Finish(r) == request' = [Forgotten(request[r].at) EXCEPT ![r] = Ended]

-----------------------------------------------------------------------------
(* The first call of an attempt.                                            *)

Called(r) == [request EXCEPT ![r].calls = @ + 1]
Retryable_Always(r) == TRUE         \* deviation: retries are not counted
Retryable(r) == request[r].try <= MaximumRetries

(* _attempt: after a transport failure reason() is called again.            *)
Again(r) ==
  /\ Retryable(r)
  /\ request' = [Called(r) EXCEPT ![r].pc = "call", ![r].try = @ + 1]
  /\ UNCHANGED <<cooldown, recent>>

Call(r) ==
  LET a == request[r].at
  IN /\ At(r, "call")
     /\ \/ Healthy(a) /\ Finish(r)                          \* valid, or a policy failure
        \/ Refused(a) /\ NextAccount(r)
        \/ Refused(a) /\ Finish(r)                          \* no capacity left to correct
        \/ Again(r)
        \/ ~Retryable(r) /\ Failed(a) /\ NextAccount(r)
        \/ Failed(a) /\ Finish(r)                           \* undecodable: no failover
        \/ /\ request' = [Called(r) EXCEPT ![r].pc = "compact"]    \* truncated
           /\ UNCHANGED <<cooldown, recent>>
        \/ /\ request' = [Called(r) EXCEPT ![r].pc = "correct"]    \* invalid JSON or schema
           /\ UNCHANGED <<cooldown, recent>>
     /\ UNCHANGED cursor

(* _compact_retry.  A second truncation or an invalid output is a policy    *)
(* failure; its transport failures are retryable like those of any call.    *)
CompactRetry(r) ==
  LET a == request[r].at
  IN /\ At(r, "compact")
     /\ \/ Healthy(a) /\ Finish(r)
        \/ Refused(a) /\ NextAccount(r)
        \/ /\ Retryable(r)
           /\ request' = [Called(r) EXCEPT ![r].pc = "call", ![r].try = @ + 1,
                                           ![r].compacts = @ + 1]
           /\ UNCHANGED <<cooldown, recent>>
        \/ ~Retryable(r) /\ Failed(a) /\ NextAccount(r)
     /\ UNCHANGED cursor

(* The bounded correction: no failover once it was tried.                   *)
Correct(r) ==
  LET a == request[r].at
  IN /\ At(r, "correct")
     /\ \/ Healthy(a) /\ Finish(r)
        \/ Refused(a) /\ Finish(r)
        \/ Again(r)
        \/ ~Retryable(r) /\ Failed(a) /\ Finish(r)
     /\ UNCHANGED cursor

-----------------------------------------------------------------------------
(* Time: a cooldown runs out, failures leave the rolling window.            *)

Elapse(a) ==
  /\ cooldown[a] = "running"
  /\ cooldown' = [cooldown EXCEPT ![a] = "over"]
  /\ UNCHANGED <<cursor, recent, request>>

Forget(a) ==
  /\ recent[a] > 0
  /\ recent' = [recent EXCEPT ![a] = 0]
  /\ UNCHANGED <<cursor, cooldown, request>>

Init ==
  /\ cursor = 0
  /\ cooldown = [a \in Names |-> "none"]
  /\ recent = [a \in Names |-> 0]
  /\ request = [r \in Requests |-> Ended]

Work(r) == Route(r) \/ Exhaust(r) \/ Call(r) \/ CompactRetry(r) \/ Correct(r)

Next ==
  \/ \E r \in Requests : Start(r) \/ Work(r)
  \/ \E a \in Names : Elapse(a) \/ Forget(a)
  \/ Metadata

Spec == Init /\ [][Next]_vars

-----------------------------------------------------------------------------
(* Properties.                                                              *)

On(r, a) == request[r].at = a

(* Types; a request is in exactly one account's exchange while it calls.    *)
TypeOK ==
  /\ cursor \in 0..Len(Accounts) - 1
  /\ cooldown \in [Names -> {"none", "running", "over"}]
  /\ recent \in [Names -> 0..Threshold - 1]
  /\ request \in [Requests ->
       [pc : {"ended", "route", "call", "compact", "correct"}, left : Seq(Names),
        at : Names \cup {NoAccount}, try : 0..MaximumRetries + 1, passed : SUBSET Names,
        calls : Nat, compacts : Nat]]
  /\ \A r \in Requests : request[r].at # NoAccount <=> request[r].pc \in {"call", "compact", "correct"}

(* A cooldown is respected by all who were not there when it began: no      *)
(* other request begins to call the account, and only time or the answer to *)
(* one who was ends it (provider.py:2116, :2158, :2279).                    *)
CooldownKept ==
  [][\A a \in Names : cooldown[a] = "running" =>
       /\ \A r \in Requests : On(r, a)' => On(r, a)
       /\ cooldown'[a] = "none" => \E r \in Requests : On(r, a) /\ ~On(r, a)']_vars

Compacts(r) == request[r].compacts + IF At(r, "compact") THEN 1 ELSE 0

(* docs/AI_PROVIDER_ROUTING.md:47 allows an analysis "at most one fresh     *)
(* compact_retry on the same account".  A compact retry or correction that  *)
(* times out makes _attempt repeat the whole exchange (provider.py:2087):   *)
(* the bound is one of either for each attempt, whatever other requests do. *)
CallsBounded ==
  \A r \in Requests : request[r].at # NoAccount =>
    /\ request[r].calls + 1 <= 2 * (MaximumRetries + 1)
    /\ Compacts(r) <= MaximumRetries + 1
=============================================================================
