------------------------------ MODULE NvmHelper ------------------------------
(***************************************************************************)
(* source/nvmHelper/ns_nvm_helper.c: clients' reads, writes and deletes     *)
(* become chains of asynchronous platform operations, one request at a     *)
(* time, with a FIFO of the requests that wait.                            *)
(*                                                                         *)
(* Everything runs in one thread.  What makes it hard is re-entrance: the  *)
(* client's callback runs inside ns_nvm_operation_end, before the request  *)
(* is freed, and may call the API again; and ns_nvm_operation_end calls    *)
(* itself for a waiting request that does not start.  The frames of that   *)
(* recursion are the variable stack, top frame last.                       *)
(*                                                                         *)
(* A request is named by the object allocated for it.  Keys, buffers and   *)
(* contexts are carried along unread and left out.                         *)
(*                                                                         *)
(* An operator X_Suffix before an operator X is a faulty variant of X, the *)
(* way a slip in the code would change it; no action uses it.              *)
(***************************************************************************)
EXTENDS Integers, SequencesExt

CONSTANTS
    Request,     \* request objects
    NoRequest,   \* the NULL request pointer
    StartFails,  \* platform calls that may return an error at once
    Reentrant    \* may a client call the API from its callback?

ClientOp == {"NS_NVM_KEY_READ", "NS_NVM_KEY_WRITE", "NS_NVM_KEY_DELETE"}
PlatformOp == {"init", "create", "read", "write", "flush", "delete"}
PlatformStatus == {"PLATFORM_NVM_OK", "PLATFORM_NVM_KEY_NOT_FOUND",
                   "PLATFORM_NVM_ERROR"}
ReturnCode == {"NS_NVM_OK", "NS_NVM_DATA_NOT_FOUND", "NS_NVM_ERROR",
               "NS_NVM_MEMORY"}

ASSUME RequestAssumption == NoRequest \notin Request
ASSUME StartFailsAssumption == StartFails \subseteq PlatformOp
ASSUME ReentrantAssumption == Reentrant \in BOOLEAN

VARIABLES
    ns_nvm_initialized,
    ns_nvm_operation_in_progress,
    ns_nvm_request_list,   \* requests that wait, oldest first
    operation,             \* the operation field of each request object
    alive,                 \* request objects that are allocated
    outstanding,           \* platform operations not completed: [op, req]
    stack,                 \* active calls of ns_nvm_operation_end
    corrupt,               \* an entry that is not on the list was removed
    answer,                \* what the last API call returned
    order,    \* auxiliary: accepted requests not called back, oldest first
    asked,    \* auxiliary: what the client asked for
    done      \* auxiliary: [op, req] completed with OK since a request started

flags == <<ns_nvm_initialized, ns_nvm_operation_in_progress>>
vars == <<flags, ns_nvm_request_list, operation, alive, outstanding, stack,
          corrupt, answer, order, asked, done>>

PlatformCall == [op : PlatformOp, req : Request]

\* A call of ns_nvm_operation_end: the client's callback is running
\* ("callback"), or the loop over the waiting requests goes on with entry e.
Frame == [req : Request, ret : ReturnCode, at : {"callback", "loop"},
          e : Request \cup {NoRequest}]

Top == stack[Len(stack)]
Below == SubSeq(stack, 1, Len(stack) - 1)

-----------------------------------------------------------------------------
Init ==
    /\ ns_nvm_initialized = FALSE
    /\ ns_nvm_operation_in_progress = FALSE
    /\ ns_nvm_request_list = << >>
    /\ operation = [r \in Request |-> "NS_NVM_NONE"]
    /\ alive = {}
    /\ outstanding = {}
    /\ stack = << >>
    /\ corrupt = FALSE
    /\ answer = "NS_NVM_OK"
    /\ order = << >>
    /\ asked = [r \in Request |-> "NS_NVM_NONE"]
    /\ done = << >>

-----------------------------------------------------------------------------
(* ns_nvm_operation_continue: the first platform call of a request *)

FirstCall(op) == IF op = "NS_NVM_KEY_WRITE" THEN "create"
                 ELSE IF op = "NS_NVM_KEY_READ" THEN "read"
                 ELSE "delete"

FirstOperation(op) == IF op = "NS_NVM_KEY_WRITE" THEN "NS_NVM_KEY_CREATE" ELSE op

Continue_NoFlag(r, op, others) ==
    /\ operation' = [operation EXCEPT ![r] = FirstOperation(op)]
    /\ outstanding' = others \cup {[op |-> FirstCall(op), req |-> r]}
    /\ done' = << >>
    /\ UNCHANGED ns_nvm_operation_in_progress

\* The platform takes it; others are the operations it had before.
Continue(r, op, others) ==
    /\ ns_nvm_operation_in_progress' = TRUE
    /\ operation' = [operation EXCEPT ![r] = FirstOperation(op)]
    /\ outstanding' = others \cup {[op |-> FirstCall(op), req |-> r]}
    /\ done' = << >>

ContinueFails_KeepsFlag(r, op, others) ==
    /\ FirstCall(op) \in StartFails
    /\ ns_nvm_operation_in_progress' = TRUE
    /\ operation' = [operation EXCEPT ![r] = FirstOperation(op)]
    /\ outstanding' = others
    /\ UNCHANGED done

\* The platform returns an error.
ContinueFails(r, op, others) ==
    /\ FirstCall(op) \in StartFails
    /\ ns_nvm_operation_in_progress' = FALSE
    /\ operation' = [operation EXCEPT ![r] = FirstOperation(op)]
    /\ outstanding' = others
    /\ UNCHANGED done

-----------------------------------------------------------------------------
(* The API: ns_nvm_key_delete, ns_nvm_data_read, ns_nvm_data_write, then    *)
(* ns_nvm_operation_start                                                  *)

\* Client code runs between platform callbacks, or inside its own callback.
ClientRuns ==
    /\ ~corrupt
    /\ \/ stack = << >>
       \/ Reentrant /\ stack # << >> /\ Top.at = "callback"

Accept(r, op) ==
    /\ alive' = alive \cup {r}
    /\ order' = Append(order, r)
    /\ asked' = [asked EXCEPT ![r] = op]
    /\ answer' = "NS_NVM_OK"

Refuse(code) ==
    /\ answer' = code
    /\ UNCHANGED <<alive, order, asked>>

\* NULL arguments, or no memory for the request or the INIT request.
ApiRefused(code) ==
    /\ ClientRuns
    /\ Refuse(code)
    /\ UNCHANGED <<flags, ns_nvm_request_list, operation, outstanding, stack,
                   corrupt, done>>

ApiStart(r, op) ==
    /\ ClientRuns /\ r \notin alive
    /\ ns_nvm_initialized /\ ~ns_nvm_operation_in_progress
    /\ \/ Continue(r, op, outstanding) /\ Accept(r, op)
       \/ ContinueFails(r, op, outstanding) /\ Refuse("NS_NVM_ERROR")
    /\ UNCHANGED <<ns_nvm_initialized, ns_nvm_request_list, stack, corrupt>>

ApiEnqueue(r, op) ==
    /\ ClientRuns /\ r \notin alive
    /\ ns_nvm_initialized /\ ns_nvm_operation_in_progress
    /\ ns_nvm_request_list' = Append(ns_nvm_request_list, r)
    /\ operation' = [operation EXCEPT ![r] = op]
    /\ Accept(r, op)
    /\ UNCHANGED <<flags, outstanding, stack, corrupt, done>>

\* The first request also initializes the platform; the INIT request that
\* carries it is the outstanding operation itself.
ApiInit(r, op) ==
    /\ ClientRuns /\ r \notin alive
    /\ ~ns_nvm_initialized
    /\ ns_nvm_initialized' = TRUE
    /\ ns_nvm_operation_in_progress' = TRUE
    /\ ns_nvm_request_list' = << >>
    /\ operation' = [operation EXCEPT ![r] = op]
    /\ outstanding' = outstanding \cup {[op |-> "init", req |-> r]}
    /\ Accept(r, op)
    /\ UNCHANGED <<stack, corrupt, done>>

ApiInitFails ==
    /\ ClientRuns
    /\ ~ns_nvm_initialized
    /\ "init" \in StartFails
    /\ Refuse("NS_NVM_ERROR")
    /\ UNCHANGED <<flags, ns_nvm_request_list, operation, outstanding, stack,
                   corrupt, done>>

ns_nvm_operation_start(r, op) ==
    ApiStart(r, op) \/ ApiEnqueue(r, op) \/ ApiInit(r, op)

-----------------------------------------------------------------------------
(* ns_nvm_operation_end *)

IndexIn(list, r) == CHOOSE i \in DOMAIN list : list[i] = r

Unlink_Keeps(list, r) == list

\* ns_list_remove
Unlink(list, r) ==
    IF r \in Range(list) THEN RemoveAt(list, IndexIn(list, r)) ELSE list

\* Entering it: the client's callback is called first of all.
CallBack(below, r, ret) ==
    /\ stack' = Append(below, [req |-> r, ret |-> ret, at |-> "callback",
                               e |-> NoRequest])
    /\ order' = Unlink(order, r)

FirstOf_Never(list) == NoRequest
FirstOf_Newest(list) == IF list = << >> THEN NoRequest ELSE Last(list)
FirstOf(list) == IF list = << >> THEN NoRequest ELSE Head(list)

\* The client returns: the request is freed, and the loop over the waiting
\* requests starts with the first.
CallbackReturns ==
    /\ ~corrupt
    /\ stack # << >> /\ Top.at = "callback"
    /\ alive' = alive \ {Top.req}
    /\ ns_nvm_operation_in_progress' = FALSE
    /\ stack' = Append(Below, [Top EXCEPT !.at = "loop",
                                          !.e = FirstOf(ns_nvm_request_list)])
    /\ UNCHANGED <<ns_nvm_initialized, ns_nvm_request_list, operation,
                   outstanding, corrupt, answer, order, asked, done>>

\* The entry ns_list_foreach_safe saves before the body runs.
NextOf(list, r) ==
    IF IndexIn(list, r) = Len(list) THEN NoRequest ELSE list[IndexIn(list, r) + 1]

\* One turn of the loop: the entry leaves the list and is started.  If that
\* fails it is ended, by a call on top of this one, and the loop goes on with
\* the entry saved before; otherwise the loop is left.  An entry that is no
\* longer on the list makes ns_list_remove follow dead links.
LoopTakes ==
    LET r == Top.e
    IN  /\ ~corrupt
        /\ stack # << >> /\ Top.at = "loop" /\ Top.e # NoRequest
        /\ IF r \notin Range(ns_nvm_request_list)
           THEN /\ corrupt' = TRUE
                /\ UNCHANGED <<ns_nvm_operation_in_progress, operation, done,
                               ns_nvm_request_list, outstanding, stack, order>>
           ELSE /\ ns_nvm_request_list' = Unlink(ns_nvm_request_list, r)
                /\ \/ /\ Continue(r, operation[r], outstanding)
                      /\ stack' = Below
                      /\ UNCHANGED order
                   \/ /\ ContinueFails(r, operation[r], outstanding)
                      /\ CallBack(Append(Below, [Top EXCEPT !.e =
                                      NextOf(ns_nvm_request_list, r)]),
                                  r, "NS_NVM_ERROR")
                /\ UNCHANGED corrupt
        /\ UNCHANGED <<ns_nvm_initialized, alive, answer, asked>>

LoopEnds ==
    /\ ~corrupt
    /\ stack # << >> /\ Top.at = "loop" /\ Top.e = NoRequest
    /\ stack' = Below
    /\ UNCHANGED <<flags, ns_nvm_request_list, operation, alive, outstanding,
                   corrupt, answer, order, asked, done>>

-----------------------------------------------------------------------------
(* ns_nvm_callback_func: a platform operation completes *)

ClientRet_Unmapped(status) == status
ClientRet(status) == IF status = "PLATFORM_NVM_ERROR" THEN "NS_NVM_ERROR"
                     ELSE IF status = "PLATFORM_NVM_KEY_NOT_FOUND"
                          THEN "NS_NVM_DATA_NOT_FOUND"
                     ELSE "NS_NVM_OK"

Completes(c) ==
    /\ ~corrupt
    /\ stack = << >>
    /\ c \in outstanding

\* Whatever the status of the initialization, the request goes on.
InitCompletes(c) ==
    LET r == c.req
    IN  /\ Completes(c)
        /\ c.op = "init"
        /\ \/ Continue(r, operation[r], outstanding \ {c}) /\ UNCHANGED alive
           \/ /\ ContinueFails(r, operation[r], outstanding \ {c})
              /\ alive' = alive \ {r}
        /\ UNCHANGED <<ns_nvm_initialized, ns_nvm_request_list, stack, corrupt,
                       answer, order, asked>>

\* The operation that follows one that succeeded; the result of the platform
\* call is not looked at.
Follows_SkipsWrite(c) == "flush"
Follows(c) == IF c.op = "create" THEN "write" ELSE "flush"
FollowsOperation(c) == IF c.op = "create" THEN "NS_NVM_KEY_WRITE" ELSE "NS_NVM_FLUSH"

StepCompletes(c) ==
    /\ Completes(c)
    /\ c.op \in {"create", "write", "delete"}
    /\ operation' = [operation EXCEPT ![c.req] = FollowsOperation(c)]
    /\ \/ outstanding' = (outstanding \ {c}) \cup {[op |-> Follows(c), req |-> c.req]}
       \/ /\ Follows(c) \in StartFails
          /\ outstanding' = outstanding \ {c}
    /\ done' = Append(done, c)
    /\ UNCHANGED <<flags, ns_nvm_request_list, alive, stack, corrupt, answer,
                   order, asked>>

\* The last operation of a request completes, or one of them fails.
RequestCompletes(c, status) ==
    /\ Completes(c)
    /\ \/ c.op \in {"flush", "read"}
       \/ c.op \in {"create", "write", "delete"} /\ status # "PLATFORM_NVM_OK"
    /\ outstanding' = outstanding \ {c}
    /\ done' = IF status = "PLATFORM_NVM_OK" THEN Append(done, c) ELSE done
    /\ CallBack(stack, c.req, ClientRet(status))
    /\ UNCHANGED <<flags, ns_nvm_request_list, operation, alive, corrupt,
                   answer, asked>>

ns_nvm_callback_func(c) ==
    \/ InitCompletes(c)
    \/ StepCompletes(c)
    \/ \E status \in PlatformStatus : RequestCompletes(c, status)

-----------------------------------------------------------------------------
Client ==
    \/ \E r \in Request, op \in ClientOp : ns_nvm_operation_start(r, op)
    \/ ApiInitFails
    \/ \E code \in {"NS_NVM_ERROR", "NS_NVM_MEMORY"} : ApiRefused(code)

Platform == \E c \in PlatformCall : ns_nvm_callback_func(c)

Return == CallbackReturns \/ LoopTakes \/ LoopEnds

Next == Client \/ Platform \/ Return

Spec == Init /\ [][Next]_vars

\* The platform completes what it accepted (arm_hal_nvm.h:28-29), a client's
\* callback returns, and code that can run does.
FairSpec == Spec /\ WF_vars(Platform) /\ WF_vars(Return)

-----------------------------------------------------------------------------
(* Properties *)

\* Every variable has its C type, and the frames are frames.
TypeOK ==
    /\ ns_nvm_initialized \in BOOLEAN
    /\ ns_nvm_operation_in_progress \in BOOLEAN
    /\ ns_nvm_request_list \in Seq(Request)
    /\ operation \in [Request -> ClientOp \cup {"NS_NVM_NONE", "NS_NVM_KEY_CREATE",
                                                "NS_NVM_FLUSH"}]
    /\ alive \in SUBSET Request
    /\ outstanding \in SUBSET PlatformCall
    /\ stack \in Seq(Frame)
    /\ corrupt \in BOOLEAN
    /\ answer \in ReturnCode
    /\ order \in Seq(Request)
    /\ asked \in [Request -> ClientOp \cup {"NS_NVM_NONE"}]
    /\ done \in Seq(PlatformCall)

\* arm_hal_nvm.h:30 "A new operation can not be started until the previous
\* operation has completed": the helper never has two with the platform.
OneOperation == \A c, d \in outstanding : c = d

CallbacksOf(frames) ==
    {frames[i].req : i \in {j \in DOMAIN frames : frames[j].at = "callback"}}
InCallback == CallbacksOf(stack)

\* A request object is allocated exactly as long as someone has it, and only
\* one has it: the list, the platform, or the client's running callback.
\* Nothing leaks, and nothing freed is used.
OneOwner ==
    LET waiting  == Range(ns_nvm_request_list)
        platform == {c.req : c \in outstanding}
    IN  /\ alive = waiting \cup platform \cup InCallback
        /\ waiting \cap platform = {}
        /\ InCallback \cap (waiting \cup platform) = {}
        /\ IsInjective(ns_nvm_request_list)

\* Between callbacks the in-progress flag says whether the platform has an
\* operation, so a request that finds it set will be picked up later.
FlagExact == stack = << >> => (ns_nvm_operation_in_progress <=> outstanding # {})

\* At every moment, inside callbacks and the loop of ns_nvm_operation_end too,
\* the flag is up exactly while the platform has an operation or a client has
\* not returned from its callback: a request made in a callback waits, and the
\* loop that follows the callback finds it (ns_nvm_helper.c:209-215).
FlagUntilReturn ==
    ns_nvm_operation_in_progress <=> outstanding # {} \/ InCallback # {}

\* Between callbacks no request waits while nothing is in progress.
NoneStranded ==
    stack = << >> /\ ns_nvm_request_list # << >> => outstanding # {}

\* ns_list.h:445 "Entry on list to be removed": the loop of
\* ns_nvm_operation_end never removes an entry that already left the list.
RemovesListed == ~corrupt

Chain(op) == CASE op = "NS_NVM_KEY_WRITE"  -> <<"create", "write", "flush">>
               [] op = "NS_NVM_KEY_READ"   -> <<"read">>
               [] op = "NS_NVM_KEY_DELETE" -> <<"delete", "flush">>

\* ns_nvm_helper.h:30-42: a client told NS_NVM_OK knows that every platform
\* operation of its request succeeded, in order, with no other in between.
OkMeansDone ==
    \A i \in DOMAIN stack :
        stack[i].at = "callback" /\ stack[i].ret = "NS_NVM_OK" =>
            LET r == stack[i].req
            IN  /\ [k \in DOMAIN done |-> done[k].op] = Chain(asked[r])
                /\ \A k \in DOMAIN done : done[k].req = r

\* A callback is for the oldest request that was accepted and not called
\* back yet: in order, and once per request.
CalledBackInOrder ==
    [][Len(stack') > Len(stack) =>
           order # << >> /\ stack'[Len(stack')].req = Head(order)]_vars

\* ns_nvm_helper.h:26 "If a API call returns NS_NVM_OK then a provided
\* callback function will be called".
AcceptedIsCalledBack ==
    \A r \in Request : r \in Range(order) ~> r \notin Range(order)

-----------------------------------------------------------------------------
(* The inductive invariant behind the safety properties, for a platform    *)
(* whose calls other than platform_nvm_init are accepted: the recursion of *)
(* ns_nvm_operation_end then never happens.                                *)

PlatformAccepts == StartFails \subseteq {"init"}

\* At most one call of ns_nvm_operation_end is active, and then the platform
\* has nothing; the flag is up until the client's callback has returned, and
\* the loop is about to take the oldest waiting request.
OneFrame ==
    /\ Len(stack) <= 1
    /\ stack # << >> =>
          /\ outstanding = {}
          /\ ns_nvm_operation_in_progress <=> stack[1].at = "callback"
          /\ stack[1].at = "loop" => stack[1].e = FirstOf(ns_nvm_request_list)

\* Before the first request was accepted there is nothing to do.
FreshUntilInit ==
    ~ns_nvm_initialized => /\ ~ns_nvm_operation_in_progress
                           /\ outstanding = {}
                           /\ stack = << >>
                           /\ ns_nvm_request_list = << >>

\* A request that was not started yet still carries what the client asked.
UnstartedKeepsOp ==
    /\ \A r \in Range(ns_nvm_request_list) : operation[r] \in ClientOp
    /\ \A c \in outstanding : c.op = "init" => operation[c.req] \in ClientOp

\* TypeOK and the properties of the state hold together with OneFrame,
\* FreshUntilInit and UnstartedKeepsOp, and every step keeps them.
StateInv ==
    /\ TypeOK
    /\ RemovesListed
    /\ OneOperation
    /\ OneOwner
    /\ FlagExact
    /\ NoneStranded
    /\ OneFrame
    /\ FreshUntilInit
    /\ UnstartedKeepsOp

\* The requests to be called back are the one the platform has and then the
\* ones on the list, in the order in which they were accepted.
OrderKept ==
    /\ \A c \in outstanding : order = <<c.req>> \o ns_nvm_request_list
    /\ outstanding = {} => order = ns_nvm_request_list

\* The operation field of a request that was not started is the client's.
AskedKept ==
    /\ \A r \in Range(ns_nvm_request_list) : operation[r] = asked[r]
    /\ \A c \in outstanding : c.op = "init" => operation[c.req] = asked[c.req]
    /\ \A r \in alive : asked[r] \in ClientOp

\* The platform works on the operation that follows, in the chain of its
\* request, those completed since the request was started.
OnChain ==
    \A c \in outstanding : c.op # "init" =>
        LET chain == Chain(asked[c.req])
        IN  /\ Len(done) < Len(chain)
            /\ c.op = chain[Len(done) + 1]
            /\ \A k \in DOMAIN done : done[k] = [op |-> chain[k], req |-> c.req]

\* What the auxiliary variables record agrees with the state.
HistoryInv == OrderKept /\ AskedKept /\ OnChain /\ OkMeansDone

IInv == StateInv /\ HistoryInv

-----------------------------------------------------------------------------
(* The inductive invariant for a platform that may refuse the first call   *)
(* of any request, when clients do not call the API from their callbacks:  *)
(* ns_nvm_operation_end then calls itself, to any depth.                   *)

\* Within a chain no platform call is refused; its result is not looked at.
ChainsGoOn == StartFails \cap {"write", "flush"} = {}

\* There are at most two request objects.
FewRequests == \A a, b, c \in Request : a = b \/ a = c \/ b = c

\* The calls under the top one are in their loops, and the platform has
\* nothing while a callback runs.  An entry a loop goes on with is either
\* gone from the list, or the oldest on it; the platform then has nothing,
\* and the top call's loop is about to take that same entry.
Nested ==
    /\ \A i \in DOMAIN stack : i < Len(stack) => stack[i].at = "loop"
    /\ stack # << >> /\ Top.at = "callback" => outstanding = {}
    /\ \A i \in DOMAIN stack :
           stack[i].at = "loop" /\ stack[i].e \in Range(ns_nvm_request_list) =>
               /\ outstanding = {}
               /\ stack[i].e = Head(ns_nvm_request_list)
               /\ Top.at = "loop" => Top.e = stack[i].e

\* Outside callbacks the flag says whether the platform has an operation.
FlagKept ==
    stack = << >> \/ Top.at = "loop" =>
        (ns_nvm_operation_in_progress <=> outstanding # {})

\* With two requests a loop never has a second entry to go on with: one is
\* being ended, and the other is the entry taken.
NoSecondEntry ==
    /\ ~corrupt
    /\ \A i \in DOMAIN stack :
           /\ i < Len(stack) => stack[i].e = NoRequest
           /\ stack[i].req \notin Range(ns_nvm_request_list)
    /\ stack # << >> /\ Top.at = "loop" =>
           Top.e \in {NoRequest, FirstOf(ns_nvm_request_list)}

\* ns_nvm_helper.c:199-226: however many requests are refused one inside the
\* other, the platform has one operation at most, every allocated request one
\* owner, and the flag is exact.
RefusedInv ==
    /\ TypeOK
    /\ OneOperation
    /\ OneOwner
    /\ FlagKept
    /\ Nested
    /\ FreshUntilInit
    /\ FewRequests => NoSecondEntry
=============================================================================
