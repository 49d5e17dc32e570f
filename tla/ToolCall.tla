------------------------------ MODULE ToolCall ------------------------------
(***************************************************************************)
(* One tool call from the HTTP request to its answer, in one server        *)
(* process: the bearer gate (mcp_common/http_identity.py), the bridge from *)
(* the SDK's task back to the request (mcp_identity_bridge.py, principal.  *)
(* py), the runtime (runtime.py, service_context.py) and the audit records *)
(* (audit.py).  Calls of several users are interleaved at every await,     *)
(* while keys are revoked, accounts disabled and clients hang up.          *)
(* What is wrong with a request is its set of flaws; the checks run in the *)
(* code's order.  The registry and the pool answer as UserLifecycle and    *)
(* ServicePool say they do; the SDK, which runs a message in a task of its *)
(* choice, may hand over any leftover context.                             *)
(***************************************************************************)
EXTENDS Naturals, Sequences, FiniteSets, SequencesExt

CONSTANTS
    Users,
    Requests,
    UserOf,        \* request -> the user whose key it presents
    FlawsOf,       \* request -> the sets of flaws it may have
    EnvDefault,    \* MS365_DEFAULT_USER_EMAIL (mode 0), or Nobody
    Known,         \* mode 0: the accounts list_users() returns, first first
    Nobody

\* The checks, in the order the code makes them.
GateChecks == <<"host", "size", "bearer">>
PolicyChecks == <<"method", "session">>
CallChecks == <<"tool", "object", "email_blank", "email_unlinked",
               "email_other", "unexpected", "invalid">>
Flaws == ToSet(GateChecks \o PolicyChecks \o CallChecks) \cup {"scope"}

CallAssumption ==
    /\ UserOf \in [Requests -> Users]
    /\ FlawsOf \in [Requests -> SUBSET SUBSET Flaws]
    /\ Nobody \notin Users
    /\ EnvDefault \in Users \cup {Nobody}
    /\ Known \in Seq(Users)

VARIABLES
    policy,      \* the mode as get_policy() caches it: "unread", "single", "multi"
    standing,    \* user -> what the registry says of the account and its key
    flaws,       \* request -> its flaws
    callPc,      \* request -> where its task is
    acting,      \* request -> whose identity its task runs under
    service,     \* request -> whose service is bound to its task
    answer,      \* request -> what its caller got
    records      \* request -> its audit records

callVars == <<policy, standing, flaws, callPc, acting, service, answer, records>>

Standings == {"active", "inactive", "revoked"}
Waiting == {"authenticating", "dispatched", "checking", "leasing", "rechecking",
            "handling", "connecting", "confirming"}
Codes == {"unauthenticated", "forbidden_scope", "account_inactive", "overloaded",
          "internal_error", "missing_principal", "identity_mismatch", "invalid_user_email",
          "unexpected_argument", "invalid_arguments", "unknown_tool", "tool_error",
          "domain_error", "graph_not_connected", "no_authenticated_user"}
Answers == Codes \cup {"none", "ok", "cancelled", "bad_host", "request_too_large",
                       "method_not_allowed", "session_not_supported", "raw"}
Record == [event : {"auth.bearer", "tool.call", "auth.identity_mismatch"},
           outcome : {"success", "failure", "denied"}, code : Codes \cup {"none", "cancelled"}]

TypeOK ==
    /\ policy \in {"unread", "single", "multi"}
    /\ standing \in [Users -> Standings]
    /\ flaws \in [Requests -> SUBSET Flaws]
    /\ callPc \in [Requests -> Waiting \cup {"idle", "done", "single"}]
    /\ acting \in [Requests -> Users \cup {Nobody}]
    /\ service \in [Requests -> Users \cup {Nobody}]
    /\ answer \in [Requests -> Answers]
    /\ \A r \in Requests : records[r] \in Seq(Record)

Init ==
    /\ policy = "unread"
    /\ standing = [u \in Users |-> "active"]
    /\ flaws = [r \in Requests |-> {}]
    /\ callPc = [r \in Requests |-> "idle"]
    /\ acting = [r \in Requests |-> Nobody]
    /\ service = [r \in Requests |-> Nobody]
    /\ answer = [r \in Requests |-> "none"]
    /\ records = [r \in Requests |-> <<>>]

-----------------------------------------------------------------------------
First(order, f) == SelectInSeq(order, LAMBDA c : c \in f)
Flawed(order, f) == First(order, f) > 0
FlawCode ==
    [host |-> "bad_host", size |-> "request_too_large", bearer |-> "unauthenticated",
     method |-> "method_not_allowed", session |-> "session_not_supported",
     tool |-> "unknown_tool", object |-> "invalid_arguments",
     email_blank |-> "invalid_user_email", email_unlinked |-> "graph_not_connected",
     email_other |-> "identity_mismatch",
     unexpected |-> "unexpected_argument", invalid |-> "invalid_arguments"]
CodeOf(order, f) == FlawCode[order[First(order, f)]]

DeniedCodes == {"missing_principal", "identity_mismatch", "invalid_user_email",
                "account_inactive", "forbidden_scope", "unauthenticated",
                "unexpected_argument"}

Rec(event, outcome, code) == [event |-> event, outcome |-> outcome, code |-> code]

\* audit(): one line, written by the caller's own thread; an unwritable file loses
\* the line and nothing else.
Logged(r, new) == records' = [records EXCEPT ![r] = @ \o new]

\* The code and outcome tool.call is audited with.
CallRecord(code) ==
    CASE code = "ok" -> Rec("tool.call", "success", "none")
      [] code = "cancelled" -> Rec("tool.call", "failure", "cancelled")
      [] code \in DeniedCodes -> Rec("tool.call", "denied", code)
      [] OTHER -> Rec("tool.call", "failure", code)

\* Mutant: a mismatch is told apart before the record of the call is written.
CallRecordsOnlyMismatch(code) ==
    IF code = "identity_mismatch" THEN <<Rec("auth.identity_mismatch", "denied", code)>>
    ELSE <<CallRecord(code)>>

CallRecords(code) ==
    <<CallRecord(code)>> \o
    (IF code = "identity_mismatch" THEN <<Rec("auth.identity_mismatch", "denied", code)>>
     ELSE <<>>)

\* The answer leaves: the contexts bound on the way are reset, the record is written.
Finish(r, code) ==
    /\ callPc' = [callPc EXCEPT ![r] = "done"]
    /\ acting' = [acting EXCEPT ![r] = Nobody]
    /\ service' = [service EXCEPT ![r] = Nobody]
    /\ answer' = [answer EXCEPT ![r] = code]
    /\ Logged(r, CallRecords(code))

\* A request the SDK never sees.
Refuse(r, code, recs) ==
    /\ callPc' = [callPc EXCEPT ![r] = "done"]
    /\ answer' = [answer EXCEPT ![r] = code]
    /\ Logged(r, recs)
    /\ UNCHANGED <<acting, service>>

Go(r, pc) ==
    /\ callPc' = [callPc EXCEPT ![r] = pc]
    /\ UNCHANGED <<acting, service, answer, records>>

-----------------------------------------------------------------------------
\* The first call of get_policy() reads the environment, for the life of the process.
ReadPolicy ==
    /\ policy = "unread"
    /\ \E m \in {"single", "multi"} : policy' = m
    /\ UNCHANGED <<standing, flaws, callPc, acting, service, answer, records>>

\* A request comes in: host, size and the form of its one Authorization header are
\* looked at, before anything else.
Receive(r) ==
    /\ policy = "multi" /\ callPc[r] = "idle"
    /\ \E f \in FlawsOf[r] :
        /\ flaws' = [flaws EXCEPT ![r] = f]
        /\ IF Flawed(GateChecks, f)
           THEN Refuse(r, CodeOf(GateChecks, f),
                       IF CodeOf(GateChecks, f) = "unauthenticated"
                       THEN <<Rec("auth.bearer", "failure", "unauthenticated")>> ELSE <<>>)
           ELSE Go(r, "authenticating")
    /\ UNCHANGED <<policy, standing>>

\* The registry takes the key: it keeps the record of its verdict, and the gate looks
\* at what a stateless server does not serve only afterwards.
Admit(r) ==
    /\ callPc[r] = "authenticating"
    /\ standing[UserOf[r]] = "active" /\ "scope" \notin flaws[r]
    /\ IF Flawed(PolicyChecks, flaws[r])
       THEN Refuse(r, CodeOf(PolicyChecks, flaws[r]), <<Rec("auth.bearer", "success", "none")>>)
       ELSE /\ callPc' = [callPc EXCEPT ![r] = "dispatched"]
            /\ Logged(r, <<Rec("auth.bearer", "success", "none")>>)
            /\ UNCHANGED <<acting, service, answer>>
    /\ UNCHANGED <<policy, standing, flaws>>

RegistryVerdict(r) ==
    CASE standing[UserOf[r]] = "revoked" -> "unauthenticated"
      [] standing[UserOf[r]] = "inactive" -> "account_inactive"
      [] OTHER -> "forbidden_scope"

\* The registry refuses, and writes the record itself.
Reject(r) ==
    /\ callPc[r] = "authenticating"
    /\ standing[UserOf[r]] # "active" \/ "scope" \in flaws[r]
    /\ LET code == RegistryVerdict(r)
           outcome == IF code = "unauthenticated" THEN "failure" ELSE "denied"
       IN Refuse(r, code, <<Rec("auth.bearer", outcome, code)>>)
    /\ UNCHANGED <<policy, standing, flaws>>

\* The registry cannot be read, or returns what is no Principal: the gate says so.
RegistryFails(r) ==
    /\ callPc[r] = "authenticating"
    /\ Refuse(r, "internal_error", <<Rec("auth.bearer", "failure", "internal_error")>>)
    /\ UNCHANGED <<policy, standing, flaws>>

-----------------------------------------------------------------------------
\* The contexts of tasks that serve other requests right now.
Leftovers(r) == {UserOf[o] : o \in {o \in Requests \ {r} : callPc[o] \in Waiting}}

\* Mutant: a context that is already bound is taken for the caller's.
ResolveBound(r, left) == IF left = Nobody THEN UserOf[r] ELSE left

\* resolve_request_identity() for a message with an HTTP request: the identity the gate
\* put on that very request, unless another one is bound.
Resolve(r, left) == IF left \in {Nobody, UserOf[r]} THEN UserOf[r] ELSE Nobody

\* The SDK runs the message, in a context that may have a leftover.
Dispatch(r) ==
    /\ callPc[r] = "dispatched"
    /\ \E left \in {Nobody, UserOf[r]} \cup Leftovers(r) :
        IF Resolve(r, left) = Nobody THEN Finish(r, "missing_principal")
        ELSE /\ acting' = [acting EXCEPT ![r] = Resolve(r, left)]
             /\ callPc' = [callPc EXCEPT ![r] = "checking"]
             /\ UNCHANGED <<service, answer, records>>
    /\ UNCHANGED <<policy, standing, flaws>>

Standing(r) == standing[acting[r]] = "active"

\* _ensure_active() refuses; CheckFails is its other end, an error of the registry.
CheckRefuses(r) ==
    /\ callPc[r] \in {"checking", "rechecking", "confirming"}
    /\ ~Standing(r)
    /\ Finish(r, "account_inactive")
    /\ UNCHANGED <<policy, standing, flaws>>

CheckFails(r) ==
    /\ callPc[r] \in {"checking", "rechecking", "confirming"}
    /\ Finish(r, "internal_error")
    /\ UNCHANGED <<policy, standing, flaws>>

\* The account is active: the arguments are judged as the client sent them, then
\* corrected, completed and validated (ToolContracts), and a service is asked for.
CheckArguments(r) ==
    /\ callPc[r] = "checking" /\ Standing(r)
    /\ IF ~Flawed(CallChecks, flaws[r]) THEN Go(r, "leasing")
       ELSE IF CodeOf(CallChecks, flaws[r]) = "graph_not_connected" THEN Go(r, "connecting")
       ELSE Finish(r, CodeOf(CallChecks, flaws[r]))
    /\ UNCHANGED <<policy, standing, flaws>>

\* A domain without a factory runs its handler with no service and no second check.
NoService(r) ==
    /\ callPc[r] = "leasing"
    /\ Go(r, "handling")
    /\ UNCHANGED <<policy, standing, flaws>>

Lease(r) ==
    /\ callPc[r] = "leasing"
    /\ service' = [service EXCEPT ![r] = acting[r]]
    /\ callPc' = [callPc EXCEPT ![r] = "rechecking"]
    /\ UNCHANGED <<policy, standing, flaws, acting, answer, records>>

LeaseFails(r) ==
    /\ callPc[r] = "leasing"
    /\ \E code \in {"overloaded", "account_inactive", "internal_error"} : Finish(r, code)
    /\ UNCHANGED <<policy, standing, flaws>>

\* Mutant: what was true before the wait for the service is taken to be true.
RecheckSkipped(r) ==
    /\ callPc[r] = "rechecking"
    /\ Go(r, "handling")
    /\ UNCHANGED <<policy, standing, flaws>>

\* The wait for the service may have been long: the account is looked at once more.
Recheck(r) ==
    /\ callPc[r] = "rechecking" /\ Standing(r)
    /\ Go(r, "handling")
    /\ UNCHANGED <<policy, standing, flaws>>

-----------------------------------------------------------------------------
\* A failure the handler raised or returned.  A payload whose code is no code is given
\* the fixed one; the runtime's own errors and security errors keep theirs.
Sanitized(code) == IF code = "raw" THEN "tool_error" ELSE code

\* The handler is done; its lease ends and its service is unbound.
HandlerReturns(r) ==
    /\ callPc[r] = "handling"
    /\ service' = [service EXCEPT ![r] = Nobody]
    /\ callPc' = [callPc EXCEPT ![r] = "confirming"]
    /\ UNCHANGED <<policy, standing, flaws, acting, answer, records>>

HandlerFails(r) ==
    /\ callPc[r] = "handling"
    /\ \E code \in {"domain_error", "raw", "internal_error"} : Finish(r, Sanitized(code))
    /\ UNCHANGED <<policy, standing, flaws>>

\* Graph is not connected: an attempt is started for the answer's link.
NotConnected(r) ==
    /\ callPc[r] = "handling"
    /\ service' = [service EXCEPT ![r] = Nobody]
    /\ callPc' = [callPc EXCEPT ![r] = "connecting"]
    /\ UNCHANGED <<policy, standing, flaws, acting, answer, records>>

\* With a link or without one: a failing start does not change the error.
AnswerNotConnected(r) ==
    /\ callPc[r] = "connecting"
    /\ Finish(r, "graph_not_connected")
    /\ UNCHANGED <<policy, standing, flaws>>

\* Mutant: the result goes out as it is.
DeliverAnyway(r) ==
    /\ callPc[r] = "confirming"
    /\ \E code \in {"ok", "domain_error", "raw"} : Finish(r, Sanitized(code))
    /\ UNCHANGED <<policy, standing, flaws>>

\* The account is active still: the result goes out, a failure the handler returned
\* instead of raising goes the way of those it raises.
Deliver(r) ==
    /\ callPc[r] = "confirming" /\ Standing(r)
    /\ \E code \in {"ok", "domain_error", "raw"} : Finish(r, Sanitized(code))
    /\ UNCHANGED <<policy, standing, flaws>>

\* The client hangs up.  Before the runtime has the call there is no record of it.
Cancel(r) ==
    /\ callPc[r] \in Waiting
    /\ IF callPc[r] \in {"authenticating", "dispatched"} THEN Refuse(r, "cancelled", <<>>)
       ELSE Finish(r, "cancelled")
    /\ UNCHANGED <<policy, standing, flaws>>

\* An administrator, or another process.
Change(u) ==
    /\ policy = "multi"
    /\ \E s \in Standings \ {standing[u]} :
        /\ standing[u] # "revoked"
        /\ standing' = [standing EXCEPT ![u] = s]
    /\ UNCHANGED <<policy, flaws, callPc, acting, service, answer, records>>

-----------------------------------------------------------------------------
(* Mode 0.  No identity: an account is chosen for the call.                 *)

\* UserResolver.resolve(): the argument, the environment, the first account known.
Chosen(explicit) ==
    CASE explicit # Nobody -> explicit
      [] explicit = Nobody /\ EnvDefault # Nobody -> EnvDefault
      [] OTHER -> IF Known = <<>> THEN Nobody ELSE Known[1]

\* call(): the arguments are completed and validated, the handler runs, and the text
\* of its exception is the caller's to see.
CallSingle(r) ==
    /\ policy = "single" /\ callPc[r] = "idle"
    /\ \E f \in FlawsOf[r], explicit \in {Nobody, UserOf[r]} :
        /\ flaws' = [flaws EXCEPT ![r] = f]
        /\ acting' = [acting EXCEPT ![r] = Chosen(explicit)]
        /\ callPc' = [callPc EXCEPT ![r] = "single"]
        /\ answer' = [answer EXCEPT ![r] =
              IF "tool" \in f THEN "unknown_tool"
              ELSE IF "invalid" \in f THEN "invalid_arguments"
              ELSE IF Chosen(explicit) = Nobody THEN "no_authenticated_user"
              ELSE "none"]
    /\ UNCHANGED <<policy, standing, service, records>>

AnswerSingle(r) ==
    /\ callPc[r] = "single"
    /\ callPc' = [callPc EXCEPT ![r] = "done"]
    /\ acting' = [acting EXCEPT ![r] = Nobody]
    /\ IF answer[r] = "none"
       THEN \E code \in {"ok", "domain_error", "raw"} : answer' = [answer EXCEPT ![r] = code]
       ELSE UNCHANGED answer
    /\ UNCHANGED <<policy, standing, flaws, service, records>>

Step(r) ==
    \/ Receive(r) \/ Admit(r) \/ Reject(r) \/ RegistryFails(r)
    \/ Dispatch(r) \/ CheckRefuses(r) \/ CheckFails(r) \/ CheckArguments(r)
    \/ NoService(r) \/ Lease(r) \/ LeaseFails(r) \/ Recheck(r)
    \/ HandlerReturns(r) \/ HandlerFails(r) \/ NotConnected(r) \/ AnswerNotConnected(r)
    \/ Deliver(r) \/ Cancel(r) \/ CallSingle(r) \/ AnswerSingle(r)

Next == ReadPolicy \/ (\E r \in Requests : Step(r)) \/ (\E u \in Users : Change(u))

Spec == Init /\ [][Next]_callVars

-----------------------------------------------------------------------------
\* Whatever context the SDK runs a message in, a call acts for the user whose key came
\* with its own HTTP request and holds no other user's service (the table of
\* mcp_identity_bridge.py; bind_identity and bind_service are undone at the end).
ActsForItsCaller ==
    policy = "multi" =>
        \A r \in Requests :
            /\ acting[r] \in {Nobody, UserOf[r]}
            /\ service[r] \in {Nobody, acting[r]}
            /\ callPc[r] = "done" => acting[r] = Nobody

\* A handler with a service starts, and a result leaves, only while the account is
\* active: a revocation during the wait for the service or during the handler is
\* noticed (the checks after the lease and before the answer in runtime.py).
RevokedGetsNothing ==
    \A r \in Requests : policy = "multi" =>
      /\ service[r] # Nobody /\ callPc[r] # "handling" /\ callPc'[r] = "handling"
           => standing[UserOf[r]] = "active"
      /\ answer[r] = "none" /\ answer'[r] = "ok" => standing[UserOf[r]] = "active"

Of(r, event) == {i \in DOMAIN records[r] : records[r][i].event = event}

\* Every request that got past host and size and was not hung up on is in the audit log
\* exactly once as an authentication and, when its tool call began, exactly once as a
\* call, with the code its caller got; a foreign user_email is logged as a mismatch too;
\* and no caller sees the raw text of an error (_audit_call's finally, http_identity's
\* division of the records with the registry, _sanitize_failure_payload).
AuditTellsTheAnswer ==
    \A r \in Requests : policy = "multi" /\ callPc[r] = "done" =>
        LET auth == Of(r, "auth.bearer")
            calls == Of(r, "tool.call")
        IN /\ answer[r] # "raw"
           /\ Cardinality(auth) <= 1 /\ Cardinality(calls) <= 1
           /\ auth = {} => answer[r] \in {"bad_host", "request_too_large", "cancelled"}
           /\ \A c \in calls :
                /\ records[r][c] = CallRecord(answer[r])
                /\ \E a \in auth : a < c /\ records[r][a].outcome = "success"
           /\ calls = {} => \A a \in auth :
                 \/ answer[r] = "cancelled"
                 \/ /\ records[r][a].outcome = "success"
                    /\ answer[r] \in {"method_not_allowed", "session_not_supported"}
                 \/ records[r][a].code = answer[r]
           /\ (answer[r] = "identity_mismatch") <=> (Of(r, "auth.identity_mismatch") # {})

=============================================================================
