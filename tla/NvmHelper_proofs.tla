-------------------------- MODULE NvmHelper_proofs --------------------------
(***************************************************************************)
(* IInv is an invariant of NvmHelper for every set of requests, whether or *)
(* not clients call the API from their callbacks, as long as the platform  *)
(* accepts every call other than platform_nvm_init.  RefusedInv is one for *)
(* a platform that may also refuse the first call of any request, as long  *)
(* as clients do not call the API from their callbacks.                    *)
(***************************************************************************)
EXTENDS NvmHelper, TLAPS

-----------------------------------------------------------------------------
(* Sequences *)

\* Appending adds one element to a sequence's range, and keeps an
\* injective sequence injective when the element is new.
LEMMA AppendRange ==
    ASSUME NEW S, NEW s \in Seq(S), NEW x \in S
    PROVE  /\ Append(s, x) \in Seq(S)
           /\ Range(Append(s, x)) = Range(s) \cup {x}
           /\ IsInjective(s) /\ x \notin Range(s) => IsInjective(Append(s, x))
<1> DEFINE t == Append(s, x)
<1>1. /\ t \in Seq(S)
      /\ DOMAIN s = 1..Len(s)
      /\ DOMAIN t = 1..(Len(s) + 1)
      /\ \A i \in 1..Len(s) : t[i] = s[i]
      /\ t[Len(s) + 1] = x
      /\ Len(s) \in Nat
  OBVIOUS
<1> HIDE DEF t
<1>2. Range(t) = Range(s) \cup {x}
  <2>1. \A i \in DOMAIN t : t[i] \in Range(s) \cup {x}
    BY <1>1 DEF Range
  <2>2. \A i \in DOMAIN s : s[i] \in Range(t)
    <3> SUFFICES ASSUME NEW i \in DOMAIN s PROVE s[i] \in Range(t)
      OBVIOUS
    <3>1. i \in DOMAIN t /\ t[i] = s[i]
      BY <1>1
    <3> QED BY <3>1 DEF Range
  <2>3. x \in Range(t)
    <3>1. Len(s) + 1 \in DOMAIN t /\ t[Len(s) + 1] = x
      BY <1>1
    <3> QED BY <3>1 DEF Range
  <2> QED BY <2>1, <2>2, <2>3 DEF Range
<1>3. IsInjective(s) /\ x \notin Range(s) => IsInjective(t)
  <2> SUFFICES ASSUME IsInjective(s), x \notin Range(s),
                      NEW i \in DOMAIN t, NEW j \in DOMAIN t, t[i] = t[j]
               PROVE  i = j
    BY DEF IsInjective
  <2>1. \A k \in 1..Len(s) : s[k] # x
    BY <1>1 DEF Range
  <2>2. \A k, l \in 1..Len(s) : s[k] = s[l] => k = l
    BY <1>1 DEF IsInjective
  <2> QED BY <1>1, <2>1, <2>2
<1> QED BY <1>1, <1>2, <1>3 DEF t

\* Removing the first element of an injective sequence removes it from the
\* range and leaves the rest, in order.
LEMMA TailRange ==
    ASSUME NEW S, NEW s \in Seq(S), s # << >>, IsInjective(s)
    PROVE  /\ Tail(s) \in Seq(S)
           /\ Range(Tail(s)) = Range(s) \ {Head(s)}
           /\ IsInjective(Tail(s))
<1> DEFINE t == Tail(s)
<1>1. /\ t \in Seq(S)
      /\ Len(s) \in Nat /\ Len(s) > 0
      /\ DOMAIN s = 1..Len(s)
      /\ DOMAIN t = 1..(Len(s) - 1)
      /\ \A i \in 1..(Len(s) - 1) : t[i] = s[i + 1]
      /\ Head(s) = s[1]
  OBVIOUS
<1> HIDE DEF t
<1>2. \A i, j \in 1..Len(s) : s[i] = s[j] => i = j
  BY <1>1 DEF IsInjective
<1>3. Range(t) \subseteq Range(s) \ {s[1]}
  <2> SUFFICES ASSUME NEW i \in DOMAIN t PROVE t[i] \in Range(s) \ {s[1]}
    BY DEF Range
  <2>1. i + 1 \in 1..Len(s) /\ i + 1 # 1 /\ t[i] = s[i + 1]
    BY <1>1
  <2>2. s[i + 1] # s[1]
    BY <1>1, <1>2, <2>1
  <2> QED BY <1>1, <2>1, <2>2 DEF Range
<1>4. Range(s) \ {s[1]} \subseteq Range(t)
  <2> SUFFICES ASSUME NEW i \in DOMAIN s, s[i] # s[1] PROVE s[i] \in Range(t)
    BY DEF Range
  <2>1. i - 1 \in DOMAIN t /\ t[i - 1] = s[i]
    BY <1>1
  <2> QED BY <2>1 DEF Range
<1>5. IsInjective(t)
  <2> SUFFICES ASSUME NEW i \in DOMAIN t, NEW j \in DOMAIN t, t[i] = t[j]
               PROVE  i = j
    BY DEF IsInjective
  <2>1. i + 1 = j + 1
    BY <1>1, <1>2
  <2> QED BY <1>1, <2>1
<1> QED BY <1>1, <1>3, <1>4, <1>5 DEF t

\* ns_list_remove yields a list again.
LEMMA UnlinkType ==
    ASSUME NEW S, NEW s \in Seq(S), NEW r
    PROVE  Unlink(s, r) \in Seq(S)
<1>1. CASE r \notin Range(s)
  BY <1>1 DEF Unlink
<1>2. CASE r \in Range(s)
  <2> DEFINE i == IndexIn(s, r)
  <2>1. i \in 1..Len(s)
    BY <1>2 DEF Range, IndexIn
  <2> HIDE DEF i
  <2>2. SubSeq(s, 1, i - 1) \in Seq(S) /\ SubSeq(s, i + 1, Len(s)) \in Seq(S)
    BY <2>1
  <2>3. RemoveAt(s, i) \in Seq(S)
    BY <2>2 DEF RemoveAt
  <2> QED BY <1>2, <2>3 DEF Unlink, i
<1> QED BY <1>1, <1>2

\* Removing the first entry of a list without duplicates leaves its tail.
LEMMA UnlinkHead ==
    ASSUME NEW S, NEW s \in Seq(S), s # << >>, IsInjective(s)
    PROVE  Unlink(s, Head(s)) = Tail(s)
<1>1. Head(s) = s[1] /\ 1 \in DOMAIN s /\ Len(s) \in Nat /\ Len(s) > 0
  OBVIOUS
<1>2. IndexIn(s, s[1]) = 1
  BY <1>1 DEF IndexIn, IsInjective
<1>3. s[1] \in Range(s)
  BY <1>1 DEF Range
<1>4. SubSeq(s, 1, 0) \o SubSeq(s, 2, Len(s)) = Tail(s)
  <2>1. SubSeq(s, 1, 0) = << >>
    BY <1>1
  <2>2. SubSeq(s, 2, Len(s)) = Tail(s)
    BY <1>1
  <2>3. << >> \o Tail(s) = Tail(s)
    BY <1>1
  <2> QED BY <2>1, <2>2, <2>3
<1>5. RemoveAt(s, 1) = Tail(s)
  BY <1>4 DEF RemoveAt
<1> QED BY <1>1, <1>2, <1>3, <1>5 DEF Unlink

-----------------------------------------------------------------------------
(* The state functions of StateInv *)

\* Under StateInv a call of ns_nvm_operation_end is the only one.
LEMMA OneCall ==
    ASSUME TypeOK, OneFrame, stack # << >>
    PROVE  /\ Len(stack) = 1
           /\ Top = stack[1]
           /\ stack[1] \in Frame
           /\ Below = << >>
<1>1. stack \in Seq(Frame) /\ Len(stack) <= 1
  BY DEF TypeOK, OneFrame
<1>2. Len(stack) = 1
  <2>1. Len(stack) \in Nat /\ Len(stack) > 0
    BY <1>1
  <2> QED BY <1>1, <2>1
<1>3. stack[1] \in Frame
  BY <1>1, <1>2
<1>4. SubSeq(stack, 1, 0) = << >>
  BY <1>1
<1> QED BY <1>2, <1>3, <1>4 DEF Top, Below

\* Who is in a callback: nobody when no call is active, and the request of
\* its frame when one is.
LEMMA CallbacksOfOne ==
    /\ CallbacksOf(<< >>) = {}
    /\ \A f \in Frame :
           CallbacksOf(<<f>>) = IF f.at = "callback" THEN {f.req} ELSE {}
BY DEF CallbacksOf

\* The first platform call of a client's request is a platform operation.
LEMMA FirstCallType ==
    ASSUME NEW op \in ClientOp
    PROVE  /\ FirstCall(op) \in {"create", "read", "delete"}
           /\ FirstOperation(op) \in {"NS_NVM_KEY_CREATE", "NS_NVM_KEY_READ",
                                      "NS_NVM_KEY_DELETE"}
BY DEF ClientOp, FirstCall, FirstOperation

\* The platform does not refuse it.
LEMMA ContinueSucceeds ==
    ASSUME PlatformAccepts, NEW op \in ClientOp, NEW r, NEW others
    PROVE  ~ContinueFails(r, op, others)
BY FirstCallType DEF PlatformAccepts, ContinueFails

-----------------------------------------------------------------------------
(* One lemma per action *)

\* The initial state satisfies the invariant.
LEMMA InitStateInv == Init => StateInv
<1> SUFFICES ASSUME Init PROVE StateInv
  OBVIOUS
<1>1. TypeOK
  <2>1. /\ << >> \in Seq(Request)
        /\ << >> \in Seq(Frame)
        /\ << >> \in Seq(PlatformCall)
    OBVIOUS
  <2>2. /\ operation \in [Request -> ClientOp \cup {"NS_NVM_NONE", "NS_NVM_KEY_CREATE",
                                                   "NS_NVM_FLUSH"}]
        /\ asked \in [Request -> ClientOp \cup {"NS_NVM_NONE"}]
        /\ answer \in ReturnCode
    BY DEF Init, ReturnCode
  <2> QED BY <2>1, <2>2 DEF Init, TypeOK
<1>2. OneOwner
  BY CallbacksOfOne DEF Init, OneOwner, InCallback, Range, IsInjective
<1> QED
  BY <1>1, <1>2 DEF Init, StateInv, RemovesListed, OneOperation, FlagExact,
     NoneStranded, OneFrame, FreshUntilInit, UnstartedKeepsOp, Range

\* A refused API call changes the answer only.
LEMMA RefusedStep ==
    ASSUME StateInv, NEW code \in {"NS_NVM_ERROR", "NS_NVM_MEMORY"},
           ApiRefused(code) \/ ApiInitFails
    PROVE  StateInv'
<1>1. /\ UNCHANGED <<flags, ns_nvm_request_list, operation, outstanding, stack,
                      corrupt, done, alive, order, asked>>
      /\ answer' \in ReturnCode
  BY DEF ApiRefused, ApiInitFails, Refuse, ReturnCode
<1>2. TypeOK'
  BY <1>1 DEF StateInv, TypeOK, flags
<1>3. OneOwner'
  BY <1>1 DEF StateInv, OneOwner, InCallback
<1> QED
  BY <1>1, <1>2, <1>3 DEF StateInv, RemovesListed, OneOperation, FlagExact, flags,
     NoneStranded, OneFrame, FreshUntilInit, UnstartedKeepsOp

\* A request that starts at once finds nothing waiting and nothing with the
\* platform, whoever calls.
LEMMA ApiStartStep ==
    ASSUME PlatformAccepts, StateInv, NEW r \in Request, NEW op \in ClientOp,
           ApiStart(r, op)
    PROVE  StateInv'
<1>1. Continue(r, op, outstanding) /\ Accept(r, op)
  BY ContinueSucceeds DEF ApiStart
<1>2. stack = << >>
  <2>1. CASE stack # << >>
    BY <2>1, OneCall DEF StateInv, OneFrame, ApiStart, ClientRuns
  <2> QED BY <2>1
<1>3. outstanding = {} /\ ns_nvm_request_list = << >>
  BY <1>2 DEF StateInv, FlagExact, NoneStranded, ApiStart
<1>4. /\ UNCHANGED <<ns_nvm_initialized, ns_nvm_request_list, stack, corrupt>>
      /\ ns_nvm_operation_in_progress' = TRUE
      /\ outstanding' = {[op |-> FirstCall(op), req |-> r]}
      /\ alive' = alive \cup {r}
  BY <1>1, <1>3 DEF ApiStart, Continue, Accept
<1>5. TypeOK'
  <2>1. operation' \in [Request -> ClientOp \cup {"NS_NVM_NONE", "NS_NVM_KEY_CREATE",
                                                  "NS_NVM_FLUSH"}]
    BY <1>1, FirstCallType DEF Continue, StateInv, TypeOK, ClientOp
  <2>2. outstanding' \subseteq PlatformCall
    BY <1>4, FirstCallType DEF PlatformCall, PlatformOp
  <2>3. order' \in Seq(Request)
    BY <1>1, AppendRange DEF Accept, StateInv, TypeOK
  <2> QED BY <1>1, <1>4, <2>1, <2>2, <2>3
          DEF Continue, Accept, StateInv, TypeOK, ReturnCode
<1>6. OneOwner'
  <2>1. alive = {}
    BY <1>2, <1>3, CallbacksOfOne DEF StateInv, OneOwner, InCallback, Range
  <2>2. {c.req : c \in outstanding'} = {r}
    BY <1>4
  <2> QED BY <1>2, <1>3, <1>4, <2>1, <2>2, CallbacksOfOne
          DEF StateInv, OneOwner, InCallback, Range
<1> QED
  BY <1>2, <1>3, <1>4, <1>5, <1>6, FirstCallType
  DEF StateInv, RemovesListed, OneOperation, FlagExact, ApiStart,
     NoneStranded, OneFrame, FreshUntilInit, UnstartedKeepsOp, Range

\* The first request takes the platform for its initialization.
LEMMA ApiInitStep ==
    ASSUME StateInv, NEW r \in Request, NEW op \in ClientOp, ApiInit(r, op)
    PROVE  StateInv'
<1>1. outstanding = {} /\ ns_nvm_request_list = << >> /\ stack = << >>
  BY DEF StateInv, FreshUntilInit, ApiInit
<1>2. /\ UNCHANGED <<stack, corrupt, done>>
      /\ ns_nvm_request_list' = << >>
      /\ ns_nvm_initialized' = TRUE
      /\ ns_nvm_operation_in_progress' = TRUE
      /\ operation' = [operation EXCEPT ![r] = op]
      /\ outstanding' = {[op |-> "init", req |-> r]}
      /\ alive' = alive \cup {r}
  BY <1>1 DEF ApiInit, Accept
<1>3. TypeOK'
  <2>1. outstanding' \subseteq PlatformCall
    BY <1>2 DEF PlatformCall, PlatformOp
  <2>2. order' \in Seq(Request)
    BY AppendRange DEF ApiInit, Accept, StateInv, TypeOK
  <2> QED BY <1>2, <2>1, <2>2 DEF ApiInit, Accept, StateInv, TypeOK, ReturnCode
<1>4. OneOwner'
  <2>1. alive = {}
    BY <1>1, CallbacksOfOne DEF StateInv, OneOwner, InCallback, Range
  <2>2. {c.req : c \in outstanding'} = {r}
    BY <1>2
  <2> QED BY <1>1, <1>2, <2>1, <2>2, CallbacksOfOne
          DEF StateInv, OneOwner, InCallback, Range
<1>5. UnstartedKeepsOp'
  BY <1>1, <1>2 DEF StateInv, TypeOK, UnstartedKeepsOp, Range
<1> QED
  BY <1>1, <1>2, <1>3, <1>4, <1>5
  DEF StateInv, RemovesListed, OneOperation, FlagExact,
     NoneStranded, OneFrame, FreshUntilInit

\* A request that waits joins the end of the list; this may happen inside
\* another request's callback.
LEMMA ApiEnqueueStep ==
    ASSUME StateInv, NEW r \in Request, NEW op \in ClientOp, ApiEnqueue(r, op)
    PROVE  StateInv'
<1>1. /\ UNCHANGED <<ns_nvm_initialized, ns_nvm_operation_in_progress,
                      outstanding, stack, corrupt, done>>
      /\ ns_nvm_request_list' = Append(ns_nvm_request_list, r)
      /\ operation' = [operation EXCEPT ![r] = op]
      /\ alive' = alive \cup {r}
      /\ r \notin alive
      /\ ns_nvm_initialized /\ ns_nvm_operation_in_progress
  BY DEF ApiEnqueue, Accept, flags
<1>2. /\ ns_nvm_request_list \in Seq(Request)
      /\ Range(ns_nvm_request_list) \subseteq alive
      /\ IsInjective(ns_nvm_request_list)
      /\ {c.req : c \in outstanding} \subseteq alive
  BY DEF StateInv, TypeOK, OneOwner
<1>3. /\ ns_nvm_request_list' \in Seq(Request)
      /\ Range(ns_nvm_request_list') = Range(ns_nvm_request_list) \cup {r}
      /\ IsInjective(ns_nvm_request_list')
  BY <1>1, <1>2, AppendRange
<1>4. TypeOK'
  <2>1. order' \in Seq(Request)
    BY AppendRange DEF ApiEnqueue, Accept, StateInv, TypeOK
  <2> QED BY <1>1, <1>3, <2>1 DEF ApiEnqueue, Accept, StateInv, TypeOK, ReturnCode
<1>5. OneOwner'
  <2>1. InCallback' = InCallback
    BY <1>1 DEF InCallback
  <2> QED BY <1>1, <1>3, <2>1 DEF StateInv, OneOwner
<1>6. UnstartedKeepsOp'
  <2>1. \A x \in Request : operation'[x] = IF x = r THEN op ELSE operation[x]
    BY <1>1 DEF StateInv, TypeOK
  <2>2. \A x \in Range(ns_nvm_request_list') : operation'[x] \in ClientOp
    BY <1>2, <1>3, <2>1 DEF StateInv, UnstartedKeepsOp, TypeOK
  <2>3. \A c \in outstanding' : c.op = "init" => operation'[c.req] \in ClientOp
    <3> SUFFICES ASSUME NEW c \in outstanding, c.op = "init"
                 PROVE  operation'[c.req] \in ClientOp
      BY <1>1
    <3>1. c.req \in alive
      BY <1>2
    <3> QED BY <1>1, <3>1, <2>1 DEF StateInv, UnstartedKeepsOp, TypeOK
  <2> QED BY <2>2, <2>3 DEF UnstartedKeepsOp
<1>7. OneFrame'
  <2>1. stack # << >> => stack[1].at = "callback"
    BY <1>1, OneCall DEF StateInv, OneFrame, ApiEnqueue, ClientRuns
  <2> QED BY <1>1, <2>1, OneCall DEF StateInv, OneFrame
<1>8. NoneStranded'
  BY <1>1 DEF StateInv, NoneStranded, FlagExact
<1> QED
  BY <1>1, <1>4, <1>5, <1>6, <1>7, <1>8
  DEF StateInv, RemovesListed, OneOperation, FlagExact, FreshUntilInit

\* A completed initialization is followed by the first call of the request
\* that asked for it.
LEMMA InitCompletesStep ==
    ASSUME PlatformAccepts, StateInv, NEW c \in PlatformCall, InitCompletes(c)
    PROVE  StateInv'
<1> DEFINE r == c.req
<1>1. r \in Request /\ c \in outstanding /\ stack = << >>
  BY DEF PlatformCall, InitCompletes, Completes
<1>2. operation[r] \in ClientOp
  BY <1>1 DEF InitCompletes, StateInv, UnstartedKeepsOp
<1>3. Continue(r, operation[r], outstanding \ {c}) /\ alive' = alive
  BY <1>2, ContinueSucceeds DEF InitCompletes
<1>4. outstanding = {c}
  BY <1>1 DEF StateInv, OneOperation
<1>5. /\ UNCHANGED <<ns_nvm_initialized, ns_nvm_request_list, stack, corrupt,
                      answer, order, asked, alive>>
      /\ ns_nvm_operation_in_progress' = TRUE
      /\ outstanding' = {[op |-> FirstCall(operation[r]), req |-> r]}
      /\ operation' = [operation EXCEPT ![r] = FirstOperation(operation[r])]
      /\ done' = << >>
  BY <1>3, <1>4 DEF InitCompletes, Continue
<1> HIDE DEF r
<1>6. TypeOK'
  <2>1. operation' \in [Request -> ClientOp \cup {"NS_NVM_NONE", "NS_NVM_KEY_CREATE",
                                                  "NS_NVM_FLUSH"}]
    BY <1>1, <1>2, <1>5, FirstCallType DEF StateInv, TypeOK, ClientOp
  <2>2. outstanding' \subseteq PlatformCall
    BY <1>1, <1>2, <1>5, FirstCallType DEF PlatformCall, PlatformOp
  <2> QED BY <1>5, <2>1, <2>2 DEF StateInv, TypeOK
<1>7. {d.req : d \in outstanding'} = {d.req : d \in outstanding}
  BY <1>4, <1>5 DEF r
<1>8. OneOwner'
  BY <1>5, <1>7 DEF StateInv, OneOwner, InCallback
<1>9. UnstartedKeepsOp'
  <2>1. \A x \in Request \ {r} : operation'[x] = operation[x]
    BY <1>5 DEF StateInv, TypeOK
  <2>2. r \notin Range(ns_nvm_request_list)
    BY <1>1 DEF StateInv, OneOwner, r
  <2>3. Range(ns_nvm_request_list) \subseteq Request
    BY DEF StateInv, TypeOK, OneOwner
  <2> QED BY <1>2, <1>5, <2>1, <2>2, <2>3, FirstCallType DEF StateInv, UnstartedKeepsOp
<1> QED
  BY <1>1, <1>5, <1>6, <1>8, <1>9
  DEF StateInv, RemovesListed, OneOperation, FlagExact, NoneStranded, OneFrame,
      FreshUntilInit

\* Within a request's chain one platform operation replaces another.
LEMMA StepCompletesStep ==
    ASSUME PlatformAccepts, StateInv, NEW c \in PlatformCall, StepCompletes(c)
    PROVE  StateInv'
<1> DEFINE r == c.req
<1>1. r \in Request /\ c \in outstanding /\ stack = << >> /\ outstanding = {c}
  BY DEF PlatformCall, StepCompletes, Completes, StateInv, OneOperation
<1>2. Follows(c) \in {"write", "flush"}
  BY DEF Follows
<1>3. /\ UNCHANGED <<ns_nvm_initialized, ns_nvm_operation_in_progress,
                      ns_nvm_request_list, alive, stack, corrupt, answer,
                      order, asked>>
      /\ outstanding' = {[op |-> Follows(c), req |-> r]}
      /\ operation' = [operation EXCEPT ![r] = FollowsOperation(c)]
      /\ done' = Append(done, c)
  BY <1>1, <1>2 DEF StepCompletes, PlatformAccepts, flags
<1> HIDE DEF r
<1>4. TypeOK'
  <2>1. operation' \in [Request -> ClientOp \cup {"NS_NVM_NONE", "NS_NVM_KEY_CREATE",
                                                  "NS_NVM_FLUSH"}]
    BY <1>1, <1>3 DEF StateInv, TypeOK, ClientOp, FollowsOperation
  <2>2. outstanding' \subseteq PlatformCall
    BY <1>1, <1>2, <1>3 DEF PlatformCall, PlatformOp
  <2>3. done' \in Seq(PlatformCall)
    BY <1>3, AppendRange DEF StateInv, TypeOK
  <2> QED BY <1>3, <2>1, <2>2, <2>3 DEF StateInv, TypeOK
<1>5. {d.req : d \in outstanding'} = {d.req : d \in outstanding}
  BY <1>1, <1>3 DEF r
<1>6. OneOwner'
  BY <1>3, <1>5 DEF StateInv, OneOwner, InCallback
<1>7. UnstartedKeepsOp'
  <2>1. \A x \in Request \ {r} : operation'[x] = operation[x]
    BY <1>3 DEF StateInv, TypeOK
  <2>2. r \notin Range(ns_nvm_request_list)
    BY <1>1 DEF StateInv, OneOwner, r
  <2>3. Range(ns_nvm_request_list) \subseteq Request
    BY DEF StateInv, TypeOK, OneOwner
  <2> QED BY <1>2, <1>3, <2>1, <2>2, <2>3 DEF StateInv, UnstartedKeepsOp
<1> QED
  BY <1>1, <1>3, <1>4, <1>6, <1>7
  DEF StateInv, RemovesListed, OneOperation, FlagExact, NoneStranded, OneFrame,
      FreshUntilInit

\* The request the platform is done with passes to its client's callback.
LEMMA RequestCompletesStep ==
    ASSUME StateInv, NEW c \in PlatformCall, NEW status \in PlatformStatus,
           RequestCompletes(c, status)
    PROVE  StateInv'
<1> DEFINE f == [req |-> c.req, ret |-> ClientRet(status), at |-> "callback",
                 e |-> NoRequest]
<1>1. c \in outstanding /\ stack = << >> /\ outstanding = {c}
  BY DEF RequestCompletes, Completes, StateInv, OneOperation
<1>2. f \in Frame
  BY DEF Frame, PlatformCall, ReturnCode, ClientRet
<1>3. Append(<< >>, f) = <<f>>
  OBVIOUS
<1>4. /\ UNCHANGED <<ns_nvm_initialized, ns_nvm_operation_in_progress,
                      ns_nvm_request_list, operation, alive, corrupt, answer,
                      asked>>
      /\ outstanding' = {}
      /\ stack' = <<f>>
      /\ order' = Unlink(order, c.req)
      /\ done' = done \/ done' = Append(done, c)
  BY <1>1, <1>3 DEF RequestCompletes, CallBack, flags
<1>5. f.at = "callback" /\ f.req = c.req /\ stack'[1] = f /\ Len(stack') = 1
  BY <1>4
<1> HIDE DEF f
<1>6. TypeOK'
  <2>1. order' \in Seq(Request)
    <3>1. order \in Seq(Request)
      BY DEF StateInv, TypeOK
    <3>2. Unlink(order, c.req) \in Seq(Request)
      BY <3>1, UnlinkType
    <3> QED BY <1>4, <3>2
  <2>3. done' \in Seq(PlatformCall)
    <3>1. done \in Seq(PlatformCall)
      BY DEF StateInv, TypeOK
    <3>2. Append(done, c) \in Seq(PlatformCall)
      BY <3>1, AppendRange
    <3> QED BY <1>4, <3>1, <3>2
  <2>2. stack' \in Seq(Frame)
    BY <1>2, <1>4
  <2> QED BY <1>4, <2>1, <2>2, <2>3 DEF StateInv, TypeOK
<1>7. OneOwner'
  <2>1. InCallback = {} /\ InCallback' = {c.req}
    BY <1>1, <1>2, <1>4, <1>5, CallbacksOfOne DEF InCallback
  <2>2. {d.req : d \in outstanding} = {c.req} /\ {d.req : d \in outstanding'} = {}
    BY <1>1, <1>4
  <2> QED BY <1>4, <2>1, <2>2 DEF StateInv, OneOwner
<1>8. ns_nvm_operation_in_progress /\ ns_nvm_initialized
  BY <1>1 DEF StateInv, FlagExact, FreshUntilInit
<1>9. stack' # << >>
  BY <1>4
<1> QED
  BY <1>4, <1>5, <1>6, <1>7, <1>8, <1>9
  DEF StateInv, RemovesListed, OneOperation, FlagExact, NoneStranded, OneFrame,
      FreshUntilInit, UnstartedKeepsOp

\* After the callback the request is gone and the flag is down, while the
\* loop holds the first waiting request.
LEMMA CallbackReturnsStep ==
    ASSUME StateInv, CallbackReturns
    PROVE  StateInv'
<1> DEFINE f == stack[1]
           g == [f EXCEPT !.at = "loop", !.e = FirstOf(ns_nvm_request_list)]
<1>1. /\ Top = f /\ f \in Frame /\ Below = << >> /\ Len(stack) = 1
      /\ f.at = "callback" /\ outstanding = {}
  BY OneCall DEF CallbackReturns, StateInv, OneFrame
<1>2. FirstOf(ns_nvm_request_list) \in Request \cup {NoRequest}
  BY DEF StateInv, TypeOK, FirstOf
<1>3. g \in Frame /\ g.at = "loop" /\ g.e = FirstOf(ns_nvm_request_list)
  BY <1>1, <1>2 DEF Frame
<1>4. Append(<< >>, g) = <<g>>
  OBVIOUS
<1>5. /\ UNCHANGED <<ns_nvm_initialized, ns_nvm_request_list, operation,
                      outstanding, corrupt, answer, order, asked, done>>
      /\ alive' = alive \ {f.req}
      /\ ns_nvm_operation_in_progress' = FALSE
      /\ stack' = <<g>>
  BY <1>1, <1>4 DEF CallbackReturns
<1>6. InCallback = {f.req} /\ InCallback' = {}
  <2>1. stack = <<f>>
    <3>1. stack \in Seq(Frame) /\ DOMAIN stack = 1..1
      BY <1>1 DEF StateInv, TypeOK
    <3> QED BY <1>1, <3>1
  <2> HIDE DEF f, g
  <2> QED BY <1>1, <1>3, <1>5, <2>1, CallbacksOfOne DEF InCallback
<1> HIDE DEF f, g
<1>7. TypeOK'
  <2>1. stack' \in Seq(Frame)
    BY <1>3, <1>5
  <2> QED BY <1>5, <2>1 DEF StateInv, TypeOK
<1>8. OneOwner'
  BY <1>1, <1>5, <1>6 DEF StateInv, OneOwner
<1>9. ns_nvm_initialized
  BY DEF StateInv, FreshUntilInit, CallbackReturns
<1>10. stack' # << >> /\ stack'[1] = g /\ Len(stack') = 1
  BY <1>5
<1> QED
  BY <1>1, <1>3, <1>5, <1>7, <1>8, <1>9, <1>10
  DEF StateInv, RemovesListed, OneOperation, FlagExact, NoneStranded, OneFrame,
      FreshUntilInit, UnstartedKeepsOp

\* The loop takes the oldest waiting request to the platform.
LEMMA LoopTakesStep ==
    ASSUME PlatformAccepts, StateInv, LoopTakes
    PROVE  StateInv'
<1> DEFINE r == Top.e
           list == ns_nvm_request_list
<1>1. /\ Top = stack[1] /\ Below = << >> /\ stack # << >>
      /\ outstanding = {} /\ Top.at = "loop"
      /\ r = FirstOf(list) /\ r # NoRequest
  BY OneCall DEF LoopTakes, StateInv, OneFrame
<1>2. list \in Seq(Request) /\ IsInjective(list)
  BY DEF StateInv, TypeOK, OneOwner
<1>3. list # << >> /\ r = Head(list)
  BY <1>1 DEF FirstOf
<1>4. 1 \in DOMAIN list /\ list[1] = r /\ r \in Request
  BY <1>2, <1>3
<1>5. r \in Range(list)
  BY <1>4 DEF Range
<1>6. operation[r] \in ClientOp
  BY <1>5 DEF StateInv, UnstartedKeepsOp
<1>7. /\ Unlink(list, r) = Tail(list)
      /\ Tail(list) \in Seq(Request)
      /\ Range(Tail(list)) = Range(list) \ {r}
      /\ IsInjective(Tail(list))
  BY <1>2, <1>3, UnlinkHead, TailRange
<1>8. /\ list' = Unlink(list, r)
      /\ Continue(r, operation[r], outstanding)
      /\ stack' = Below
      /\ UNCHANGED <<order, corrupt, ns_nvm_initialized, alive, answer, asked>>
  BY <1>5, <1>6, ContinueSucceeds DEF LoopTakes
<1>9. /\ list' = Tail(list)
      /\ stack' = << >>
      /\ ns_nvm_operation_in_progress' = TRUE
      /\ outstanding' = {[op |-> FirstCall(operation[r]), req |-> r]}
      /\ operation' = [operation EXCEPT ![r] = FirstOperation(operation[r])]
      /\ done' = << >>
  BY <1>1, <1>7, <1>8 DEF Continue
<1> HIDE DEF r
<1>10. TypeOK'
  <2>1. operation' \in [Request -> ClientOp \cup {"NS_NVM_NONE", "NS_NVM_KEY_CREATE",
                                                  "NS_NVM_FLUSH"}]
    BY <1>4, <1>6, <1>9, FirstCallType DEF StateInv, TypeOK, ClientOp
  <2>2. outstanding' \subseteq PlatformCall
    BY <1>4, <1>6, <1>9, FirstCallType DEF PlatformCall, PlatformOp
  <2> QED BY <1>7, <1>8, <1>9, <2>1, <2>2 DEF StateInv, TypeOK
<1>11. OneOwner'
  <2>1. InCallback = {}
    <3>1. stack[1] \in Frame /\ Len(stack) = 1 /\ stack \in Seq(Frame)
      BY <1>1, OneCall DEF StateInv, TypeOK
    <3>2. DOMAIN stack = 1..1
      BY <3>1
    <3>3. stack[1].at # "callback"
      BY <1>1
    <3> QED BY <3>2, <3>3 DEF InCallback, CallbacksOf
  <2>2. InCallback' = {}
    BY <1>9, CallbacksOfOne DEF InCallback
  <2>3. {d.req : d \in outstanding} = {} /\ {d.req : d \in outstanding'} = {r}
    BY <1>1, <1>9
  <2> QED BY <1>5, <1>7, <1>8, <1>9, <2>1, <2>2, <2>3 DEF StateInv, OneOwner
<1>12. UnstartedKeepsOp'
  <2>1. \A x \in Request \ {r} : operation'[x] = operation[x]
    BY <1>9 DEF StateInv, TypeOK
  <2>2. Range(list') \subseteq Request \ {r}
    <3>1. Range(list) \subseteq Request
      BY DEF StateInv, TypeOK, OneOwner
    <3> QED BY <3>1, <1>7, <1>9
  <2> QED BY <1>6, <1>7, <1>9, <2>1, <2>2, FirstCallType DEF StateInv, UnstartedKeepsOp
<1>13. ns_nvm_initialized
  BY <1>1 DEF StateInv, FreshUntilInit
<1> QED
  BY <1>8, <1>9, <1>10, <1>11, <1>12, <1>13
  DEF StateInv, RemovesListed, OneOperation, FlagExact, NoneStranded, OneFrame,
      FreshUntilInit

\* The loop ends when nothing waits.
LEMMA LoopEndsStep ==
    ASSUME StateInv, LoopEnds
    PROVE  StateInv'
<1>1. /\ Top = stack[1] /\ Below = << >> /\ stack # << >>
      /\ outstanding = {} /\ Top.at = "loop"
      /\ FirstOf(ns_nvm_request_list) = NoRequest
      /\ ns_nvm_operation_in_progress = FALSE
  BY OneCall DEF LoopEnds, StateInv, OneFrame, TypeOK
<1>2. ns_nvm_request_list = << >>
  <2>1. ns_nvm_request_list \in Seq(Request)
    BY DEF StateInv, TypeOK
  <2>2. ASSUME ns_nvm_request_list # << >> PROVE Head(ns_nvm_request_list) \in Request
    BY <2>1, <2>2
  <2> QED BY <1>1, <2>2, RequestAssumption DEF FirstOf
<1>3. /\ UNCHANGED <<ns_nvm_initialized, ns_nvm_operation_in_progress,
                      ns_nvm_request_list, operation, alive, outstanding,
                      corrupt, answer, order, asked, done>>
      /\ stack' = << >>
  BY <1>1 DEF LoopEnds, flags
<1>4. TypeOK'
  <2>1. << >> \in Seq(Frame)
    OBVIOUS
  <2> QED BY <1>3, <2>1 DEF StateInv, TypeOK
<1>5. OneOwner'
  <2>1. InCallback = {}
    <3>1. stack[1] \in Frame /\ Len(stack) = 1 /\ stack \in Seq(Frame)
      BY <1>1, OneCall DEF StateInv, TypeOK
    <3>2. DOMAIN stack = 1..1
      BY <3>1
    <3>3. stack[1].at # "callback"
      BY <1>1
    <3> QED BY <3>2, <3>3 DEF InCallback, CallbacksOf
  <2>2. InCallback' = {}
    BY <1>3, CallbacksOfOne DEF InCallback
  <2> QED BY <1>3, <2>1, <2>2 DEF StateInv, OneOwner
<1> QED
  BY <1>1, <1>2, <1>3, <1>4, <1>5
  DEF StateInv, RemovesListed, OneOperation, FlagExact, NoneStranded, OneFrame,
      FreshUntilInit, UnstartedKeepsOp

-----------------------------------------------------------------------------
(* What the auxiliary variables record: the order of the callbacks and the *)
(* operations of a request *)

\* The chains of platform operations, and their place in Seq.
LEMMA ChainOf ==
    /\ Chain("NS_NVM_KEY_WRITE") = <<"create", "write", "flush">>
    /\ Chain("NS_NVM_KEY_READ") = <<"read">>
    /\ Chain("NS_NVM_KEY_DELETE") = <<"delete", "flush">>
BY DEF Chain

\* A chain is a sequence that starts with the first call of its request; only
\* its last operation is a read or a flush, and every other is followed by
\* what Follows says.
LEMMA ChainStep ==
    ASSUME NEW op \in ClientOp
    PROVE  /\ Chain(op) \in Seq(PlatformOp)
           /\ Len(Chain(op)) \in Nat /\ Len(Chain(op)) > 0
           /\ Chain(op)[1] = FirstCall(op)
           /\ \A k \in 1..Len(Chain(op)) :
                 /\ Chain(op)[k] \in {"flush", "read"} => k = Len(Chain(op))
                 /\ Chain(op)[k] \in {"create", "write", "delete"} =>
                       /\ k + 1 \in 1..Len(Chain(op))
                       /\ \A c \in PlatformCall : c.op = Chain(op)[k] =>
                             Chain(op)[k + 1] = Follows(c)
<1>1. CASE op = "NS_NVM_KEY_WRITE"
  <2> DEFINE s == <<"create", "write", "flush">>
  <2>1. /\ s \in Seq(PlatformOp) /\ Len(s) = 3
        /\ s[1] = "create" /\ s[2] = "write" /\ s[3] = "flush"
    BY DEF PlatformOp
  <2>2. Chain(op) = s
    BY <1>1, ChainOf
  <2> HIDE DEF s
  <2>3. \A k \in 1..3 : k = 1 \/ k = 2 \/ k = 3
    OBVIOUS
  <2>4. Chain(op)[1] = FirstCall(op)
    BY <1>1, <2>1, <2>2 DEF FirstCall
  <2>5. \A k \in 1..3 : s[k] \in {"flush", "read"} => k = 3
    BY <2>1, <2>3
  <2>6. ASSUME NEW k \in 1..3, s[k] \in {"create", "write", "delete"},
               NEW c \in PlatformCall, c.op = s[k]
        PROVE  k + 1 \in 1..3 /\ s[k + 1] = Follows(c)
    <3>1. CASE k = 1
      BY <2>1, <2>6, <3>1 DEF Follows
    <3>2. CASE k = 2
      BY <2>1, <2>6, <3>2 DEF Follows
    <3>3. CASE k = 3
      BY <2>1, <2>6, <3>3
    <3> QED BY <2>3, <3>1, <3>2, <3>3
  <2>7. \A k \in 1..3 : s[k] \in {"create", "write", "delete"} =>
            /\ k + 1 \in 1..3
            /\ \A c \in PlatformCall : c.op = s[k] => s[k + 1] = Follows(c)
    <3>1. \A k \in 1..3 : s[k] \in {"create", "write", "delete"} => k + 1 \in 1..3
      BY <2>1, <2>3
    <3> QED BY <2>6, <3>1
  <2>8. Len(s) = 3 /\ Len(s) \in Nat /\ Len(s) > 0 /\ s \in Seq(PlatformOp)
    BY <2>1
  <2> QED BY <2>2, <2>4, <2>5, <2>7, <2>8
<1>2. CASE op = "NS_NVM_KEY_READ"
  <2> DEFINE s == <<"read">>
  <2>1. s \in Seq(PlatformOp) /\ Len(s) = 1 /\ s[1] = "read"
    BY DEF PlatformOp
  <2>2. Chain(op) = s
    BY <1>2, ChainOf
  <2> HIDE DEF s
  <2>3. Chain(op)[1] = FirstCall(op)
    BY <1>2, <2>1, <2>2 DEF FirstCall
  <2>4. \A k \in 1..1 : k = 1 /\ s[k] \notin {"create", "write", "delete"}
    BY <2>1
  <2> QED BY <2>1, <2>2, <2>3, <2>4
<1>3. CASE op = "NS_NVM_KEY_DELETE"
  <2> DEFINE s == <<"delete", "flush">>
  <2>1. /\ s \in Seq(PlatformOp) /\ Len(s) = 2
        /\ s[1] = "delete" /\ s[2] = "flush"
    BY DEF PlatformOp
  <2>2. Chain(op) = s
    BY <1>3, ChainOf
  <2> HIDE DEF s
  <2>3. \A k \in 1..2 : k = 1 \/ k = 2
    OBVIOUS
  <2>4. Chain(op)[1] = FirstCall(op)
    BY <1>3, <2>1, <2>2 DEF FirstCall
  <2>5. \A k \in 1..2 : s[k] \in {"flush", "read"} => k = 2
    BY <2>1, <2>3
  <2>6. ASSUME NEW k \in 1..2, s[k] \in {"create", "write", "delete"},
               NEW c \in PlatformCall, c.op = s[k]
        PROVE  k + 1 \in 1..2 /\ s[k + 1] = Follows(c)
    <3>1. k = 1
      BY <2>1, <2>3, <2>6
    <3> QED BY <2>1, <2>6, <3>1 DEF Follows
  <2>7. \A k \in 1..2 : s[k] \in {"create", "write", "delete"} =>
            /\ k + 1 \in 1..2
            /\ \A c \in PlatformCall : c.op = s[k] => s[k + 1] = Follows(c)
    <3>1. \A k \in 1..2 : s[k] \in {"create", "write", "delete"} => k + 1 \in 1..2
      BY <2>1, <2>3
    <3> QED BY <2>6, <3>1
  <2>8. Len(s) = 2 /\ Len(s) \in Nat /\ Len(s) > 0 /\ s \in Seq(PlatformOp)
    BY <2>1
  <2> QED BY <2>2, <2>4, <2>5, <2>7, <2>8
<1> QED BY <1>1, <1>2, <1>3 DEF ClientOp

\* A request that goes to the platform is at the start of its chain.
LEMMA StartsChain ==
    ASSUME NEW r \in Request, NEW op \in ClientOp, asked'[r] = op,
           outstanding' = {[op |-> FirstCall(op), req |-> r]}, done' = << >>
    PROVE  OnChain'
<1>1. Len(done') = 0 /\ DOMAIN done' = {}
  OBVIOUS
<1> QED BY <1>1, ChainStep DEF OnChain

\* Without an active call there is nothing to say about a callback.
LEMMA NoCallback == stack = << >> => OkMeansDone
BY DEF OkMeansDone

\* The initial state satisfies it.
LEMMA InitHistoryInv == Init => HistoryInv
BY NoCallback DEF Init, HistoryInv, OrderKept, AskedKept, OnChain, Range

\* A refused call is not recorded.
LEMMA RefusedHistory ==
    ASSUME HistoryInv, NEW code, ApiRefused(code) \/ ApiInitFails
    PROVE  HistoryInv'
<1>1. UNCHANGED <<ns_nvm_request_list, operation, outstanding, stack, done,
                  alive, order, asked>>
  BY DEF ApiRefused, ApiInitFails, Refuse
<1> QED BY <1>1 DEF HistoryInv, OrderKept, AskedKept, OnChain, OkMeansDone

\* A request that starts at once is the only one.
LEMMA ApiStartHistory ==
    ASSUME PlatformAccepts, StateInv, HistoryInv, NEW r \in Request,
           NEW op \in ClientOp, ApiStart(r, op)
    PROVE  HistoryInv'
<1>1. Continue(r, op, outstanding) /\ Accept(r, op)
  BY ContinueSucceeds DEF ApiStart
<1>2. stack = << >>
  <2>1. CASE stack # << >>
    BY <2>1, OneCall DEF StateInv, OneFrame, ApiStart, ClientRuns
  <2> QED BY <2>1
<1>3. outstanding = {} /\ ns_nvm_request_list = << >>
  BY <1>2 DEF StateInv, FlagExact, NoneStranded, ApiStart
<1>4. /\ UNCHANGED <<ns_nvm_request_list, stack>>
      /\ outstanding' = {[op |-> FirstCall(op), req |-> r]}
      /\ alive' = alive \cup {r}
      /\ asked' = [asked EXCEPT ![r] = op]
      /\ order' = Append(order, r)
      /\ done' = << >>
  BY <1>1, <1>3 DEF ApiStart, Continue, Accept
<1>5. /\ asked'[r] = op
      /\ \A x \in Request \ {r} : asked'[x] = asked[x]
  BY <1>4 DEF StateInv, TypeOK
<1>6. OrderKept'
  <2>1. order = << >>
    BY <1>3 DEF HistoryInv, OrderKept
  <2>2. Append(<< >>, r) = <<r>> \o << >>
    OBVIOUS
  <2>3. outstanding' # {} /\ \A d \in outstanding' : d.req = r
    BY <1>4
  <2>4. order' = <<r>> \o ns_nvm_request_list'
    BY <1>3, <1>4, <2>1, <2>2
  <2> QED BY <2>3, <2>4 DEF OrderKept
<1>7. AskedKept'
  <2>1. Range(ns_nvm_request_list') = {}
    BY <1>3, <1>4 DEF Range
  <2>2. \A d \in outstanding' : d.op # "init"
    BY <1>4, FirstCallType
  <2>3. \A x \in alive' : asked'[x] \in ClientOp
    BY <1>4, <1>5 DEF HistoryInv, AskedKept, StateInv, TypeOK
  <2> QED BY <2>1, <2>2, <2>3 DEF AskedKept
<1>8. OnChain'
  BY <1>4, <1>5, StartsChain
<1>9. OkMeansDone'
  BY <1>2, <1>4 DEF OkMeansDone
<1> QED BY <1>6, <1>7, <1>8, <1>9 DEF HistoryInv

\* The first request of all.
LEMMA ApiInitHistory ==
    ASSUME StateInv, HistoryInv, NEW r \in Request, NEW op \in ClientOp,
           ApiInit(r, op)
    PROVE  HistoryInv'
<1>1. outstanding = {} /\ ns_nvm_request_list = << >> /\ stack = << >>
  BY DEF StateInv, FreshUntilInit, ApiInit
<1>2. /\ UNCHANGED stack
      /\ ns_nvm_request_list' = << >>
      /\ operation' = [operation EXCEPT ![r] = op]
      /\ outstanding' = {[op |-> "init", req |-> r]}
      /\ alive' = alive \cup {r}
      /\ asked' = [asked EXCEPT ![r] = op]
      /\ order' = Append(order, r)
  BY <1>1 DEF ApiInit, Accept
<1>3. OrderKept'
  <2>1. order = << >>
    BY <1>1 DEF HistoryInv, OrderKept
  <2>2. Append(<< >>, r) = <<r>> \o << >>
    OBVIOUS
  <2>3. outstanding' # {} /\ \A d \in outstanding' : d.req = r
    BY <1>2
  <2>4. order' = <<r>> \o ns_nvm_request_list'
    BY <1>2, <2>1, <2>2
  <2> QED BY <2>3, <2>4 DEF OrderKept
<1>4. AskedKept'
  <2>1. Range(ns_nvm_request_list') = {}
    BY <1>2 DEF Range
  <2> QED BY <1>2, <2>1 DEF HistoryInv, AskedKept, StateInv, TypeOK
<1>5. OnChain'
  BY <1>2 DEF OnChain
<1>6. OkMeansDone'
  BY <1>1, <1>2 DEF OkMeansDone
<1> QED BY <1>3, <1>4, <1>5, <1>6 DEF HistoryInv

\* A request that waits is the youngest of all.
LEMMA ApiEnqueueHistory ==
    ASSUME StateInv, HistoryInv, NEW r \in Request, NEW op \in ClientOp,
           ApiEnqueue(r, op)
    PROVE  HistoryInv'
<1> DEFINE list == ns_nvm_request_list
<1>1. /\ UNCHANGED <<outstanding, stack, done>>
      /\ list' = Append(list, r)
      /\ operation' = [operation EXCEPT ![r] = op]
      /\ asked' = [asked EXCEPT ![r] = op]
      /\ alive' = alive \cup {r}
      /\ order' = Append(order, r)
      /\ r \notin alive
  BY DEF ApiEnqueue, Accept
<1>2. /\ list \in Seq(Request)
      /\ Range(list) \subseteq alive
      /\ \A c \in outstanding : c.req \in alive /\ c.req \in Request
      /\ alive \subseteq Request
      /\ InCallback \subseteq alive
  BY DEF StateInv, TypeOK, OneOwner, PlatformCall
<1>3. /\ \A x \in Request : operation'[x] = IF x = r THEN op ELSE operation[x]
      /\ \A x \in Request : asked'[x] = IF x = r THEN op ELSE asked[x]
  BY <1>1 DEF StateInv, TypeOK
<1>4. Range(list') = Range(list) \cup {r}
  BY <1>1, <1>2, AppendRange
<1>5. OrderKept'
  <2>1. CASE outstanding = {}
    BY <1>1, <2>1 DEF HistoryInv, OrderKept
  <2>2. ASSUME NEW c \in outstanding PROVE order' = <<c.req>> \o list'
    <3>1. order = <<c.req>> \o list
      BY DEF HistoryInv, OrderKept
    <3>2. c.req \in Request
      BY <1>2
    <3>3. Append(<<c.req>> \o list, r) = <<c.req>> \o Append(list, r)
      BY <1>2, <3>2
    <3> QED BY <1>1, <3>1, <3>3
  <2> QED BY <1>1, <2>1, <2>2 DEF OrderKept
<1>6. AskedKept'
  <2>1. \A x \in Range(list') : operation'[x] = asked'[x]
    BY <1>2, <1>3, <1>4 DEF HistoryInv, AskedKept
  <2>2. \A c \in outstanding' : c.op = "init" => operation'[c.req] = asked'[c.req]
    BY <1>1, <1>2, <1>3 DEF HistoryInv, AskedKept
  <2>3. \A x \in alive' : asked'[x] \in ClientOp
    BY <1>1, <1>2, <1>3 DEF HistoryInv, AskedKept
  <2> QED BY <2>1, <2>2, <2>3 DEF AskedKept
<1>7. OnChain'
  <2> SUFFICES ASSUME NEW c \in outstanding, c.op # "init"
               PROVE  LET chain == Chain(asked'[c.req])
                      IN  /\ Len(done) < Len(chain)
                          /\ c.op = chain[Len(done) + 1]
                          /\ \A k \in DOMAIN done :
                                done[k] = [op |-> chain[k], req |-> c.req]
    BY <1>1 DEF OnChain
  <2>1. asked'[c.req] = asked[c.req]
    BY <1>1, <1>2, <1>3
  <2> QED BY <2>1 DEF HistoryInv, OnChain
<1>8. OkMeansDone'
  <2> SUFFICES ASSUME NEW i \in DOMAIN stack, stack[i].at = "callback",
                      stack[i].ret = "NS_NVM_OK"
               PROVE  /\ [k \in DOMAIN done |-> done[k].op] = Chain(asked'[stack[i].req])
                      /\ \A k \in DOMAIN done : done[k].req = stack[i].req
    BY <1>1 DEF OkMeansDone
  <2>1. stack[i].req \in InCallback
    BY DEF InCallback, CallbacksOf
  <2>2. asked'[stack[i].req] = asked[stack[i].req]
    BY <1>1, <1>2, <1>3, <2>1
  <2> QED BY <2>2 DEF HistoryInv, OkMeansDone
<1> QED BY <1>5, <1>6, <1>7, <1>8 DEF HistoryInv

\* The request that waited for the initialization starts its chain.
LEMMA InitCompletesHistory ==
    ASSUME PlatformAccepts, StateInv, HistoryInv, NEW c \in PlatformCall,
           InitCompletes(c)
    PROVE  HistoryInv'
<1> DEFINE r == c.req
<1>1. r \in Request /\ c \in outstanding /\ stack = << >> /\ c.op = "init"
  BY DEF PlatformCall, InitCompletes, Completes
<1>2. operation[r] \in ClientOp /\ operation[r] = asked[r]
  BY <1>1 DEF StateInv, UnstartedKeepsOp, HistoryInv, AskedKept
<1>3. Continue(r, operation[r], outstanding \ {c}) /\ alive' = alive
  BY <1>2, ContinueSucceeds DEF InitCompletes
<1>4. outstanding = {c}
  BY <1>1 DEF StateInv, OneOperation
<1>5. /\ UNCHANGED <<ns_nvm_request_list, stack, order, asked, alive>>
      /\ outstanding' = {[op |-> FirstCall(operation[r]), req |-> r]}
      /\ operation' = [operation EXCEPT ![r] = FirstOperation(operation[r])]
      /\ done' = << >>
  BY <1>3, <1>4 DEF InitCompletes, Continue
<1>6. OrderKept'
  <2>1. outstanding' # {} /\ \A d \in outstanding' : d.req = r
    BY <1>5
  <2>2. order' = <<r>> \o ns_nvm_request_list'
    BY <1>1, <1>5 DEF HistoryInv, OrderKept
  <2> QED BY <2>1, <2>2 DEF OrderKept
<1> HIDE DEF r
<1>7. AskedKept'
  <2>1. r \notin Range(ns_nvm_request_list)
    BY <1>1 DEF StateInv, OneOwner, r
  <2>2. Range(ns_nvm_request_list) \subseteq Request
    BY DEF StateInv, TypeOK, OneOwner
  <2>3. \A x \in Request \ {r} : operation'[x] = operation[x]
    BY <1>5 DEF StateInv, TypeOK
  <2> QED BY <1>2, <1>5, <2>1, <2>2, <2>3, FirstCallType DEF HistoryInv, AskedKept
<1>8. OnChain'
  BY <1>1, <1>2, <1>5, StartsChain
<1>9. OkMeansDone'
  BY <1>1, <1>5 DEF OkMeansDone
<1> QED BY <1>6, <1>7, <1>8, <1>9 DEF HistoryInv

\* One operation of a chain is followed by the next.
LEMMA StepCompletesHistory ==
    ASSUME PlatformAccepts, StateInv, HistoryInv, NEW c \in PlatformCall,
           StepCompletes(c)
    PROVE  HistoryInv'
<1> DEFINE r == c.req
           chain == Chain(asked[r])
<1>1. /\ r \in Request /\ c \in outstanding /\ stack = << >> /\ outstanding = {c}
      /\ c.op \in {"create", "write", "delete"}
  BY DEF PlatformCall, StepCompletes, Completes, StateInv, OneOperation
<1>2. Follows(c) \in {"write", "flush"}
  BY DEF Follows
<1>3. /\ UNCHANGED <<ns_nvm_request_list, alive, stack, order, asked>>
      /\ outstanding' = {[op |-> Follows(c), req |-> r]}
      /\ operation' = [operation EXCEPT ![r] = FollowsOperation(c)]
      /\ done' = Append(done, c)
  BY <1>1, <1>2 DEF StepCompletes, PlatformAccepts
<1>4. r \in alive
  BY <1>1 DEF StateInv, OneOwner
<1>5. asked[r] \in ClientOp
  BY <1>4 DEF HistoryInv, AskedKept
<1>6. OrderKept'
  <2>1. outstanding' # {} /\ \A d \in outstanding' : d.req = r
    BY <1>3
  <2>2. order' = <<r>> \o ns_nvm_request_list'
    BY <1>1, <1>3 DEF HistoryInv, OrderKept
  <2> QED BY <2>1, <2>2 DEF OrderKept
<1>7. /\ Len(done) < Len(chain)
      /\ c.op = chain[Len(done) + 1]
      /\ \A k \in DOMAIN done : done[k] = [op |-> chain[k], req |-> r]
  BY <1>1 DEF HistoryInv, OnChain
<1>8. /\ Len(chain) \in Nat
      /\ \A k \in 1..Len(chain) :
            chain[k] \in {"create", "write", "delete"} =>
               /\ k + 1 \in 1..Len(chain)
               /\ \A d \in PlatformCall : d.op = chain[k] => chain[k + 1] = Follows(d)
  BY <1>5, ChainStep
<1>9. c = [op |-> c.op, req |-> r]
  BY DEF PlatformCall
<1> HIDE DEF r, chain
<1>10. AskedKept'
  <2>1. r \notin Range(ns_nvm_request_list)
    BY <1>1 DEF StateInv, OneOwner, r
  <2>2. Range(ns_nvm_request_list) \subseteq Request
    BY DEF StateInv, TypeOK, OneOwner
  <2>3. \A x \in Request \ {r} : operation'[x] = operation[x]
    BY <1>3 DEF StateInv, TypeOK
  <2> QED BY <1>2, <1>3, <2>1, <2>2, <2>3 DEF HistoryInv, AskedKept
<1>11. OnChain'
  <2>1. done \in Seq(PlatformCall)
    BY DEF StateInv, TypeOK
  <2> DEFINE n == Len(done)
  <2>2. /\ n \in Nat /\ DOMAIN done = 1..n
        /\ Len(done') = n + 1 /\ DOMAIN done' = 1..(n + 1)
        /\ done'[n + 1] = c /\ \A k \in 1..n : done'[k] = done[k]
    BY <1>3, <2>1
  <2> HIDE DEF n
  <2>3. n + 1 \in 1..Len(chain)
    BY <1>7, <1>8, <2>2 DEF n
  <2>4. n + 2 \in 1..Len(chain) /\ chain[n + 2] = Follows(c)
    BY <1>1, <1>7, <1>8, <2>2, <2>3 DEF n
  <2>5. Len(done') < Len(chain) /\ chain[Len(done') + 1] = Follows(c)
    BY <1>8, <2>2, <2>4
  <2>6. \A k \in DOMAIN done' : done'[k] = [op |-> chain[k], req |-> r]
    BY <1>7, <1>9, <2>2 DEF n
  <2>7. Chain(asked'[r]) = chain
    BY <1>3 DEF chain
  <2> QED BY <1>3, <2>5, <2>6, <2>7 DEF OnChain
<1>12. OkMeansDone'
  BY <1>1, <1>3 DEF OkMeansDone
<1> QED BY <1>6, <1>10, <1>11, <1>12 DEF HistoryInv

\* The request with the platform is the oldest one, and removing it from the
\* order leaves the waiting requests.
LEMMA OldestOut ==
    ASSUME StateInv, HistoryInv, NEW c \in outstanding
    PROVE  /\ order # << >>
           /\ Head(order) = c.req
           /\ Unlink(order, c.req) = ns_nvm_request_list
<1> DEFINE list == ns_nvm_request_list
           r == c.req
<1>1. /\ order = <<r>> \o list /\ list \in Seq(Request) /\ r \in Request
      /\ r \notin Range(list) /\ IsInjective(list)
  BY DEF HistoryInv, OrderKept, StateInv, TypeOK, OneOwner, PlatformCall
<1> HIDE DEF list, r
<1>2. /\ order \in Seq(Request) /\ order # << >> /\ Head(order) = r
      /\ Tail(order) = list
      /\ DOMAIN order = 1..(Len(list) + 1) /\ Len(list) \in Nat
      /\ order[1] = r /\ \A i \in 1..Len(list) : order[i + 1] = list[i]
      /\ DOMAIN list = 1..Len(list)
  BY <1>1
<1>3. IsInjective(order)
  <2> SUFFICES ASSUME NEW i \in DOMAIN order, NEW j \in DOMAIN order,
                      order[i] = order[j]
               PROVE  i = j
    BY DEF IsInjective
  <2>1. \A k \in DOMAIN order : k # 1 => k - 1 \in DOMAIN list /\ order[k] = list[k - 1]
    BY <1>2
  <2>2. \A k \in DOMAIN list : list[k] # r
    BY <1>1 DEF Range
  <2>3. CASE i = 1 \/ j = 1
    BY <1>2, <2>1, <2>2, <2>3
  <2>4. CASE i # 1 /\ j # 1
    <3>1. i - 1 = j - 1
      BY <1>1, <2>1, <2>4 DEF IsInjective
    <3> QED BY <1>2, <3>1
  <2> QED BY <2>3, <2>4
<1> QED BY <1>2, <1>3, UnlinkHead DEF list, r

\* A request is called back: it is the oldest, and with NS_NVM_OK its chain
\* is complete.
LEMMA RequestCompletesHistory ==
    ASSUME StateInv, HistoryInv, NEW c \in PlatformCall,
           NEW status \in PlatformStatus, RequestCompletes(c, status)
    PROVE  HistoryInv'
<1> DEFINE r == c.req
           chain == Chain(asked[r])
           f == [req |-> r, ret |-> ClientRet(status), at |-> "callback",
                 e |-> NoRequest]
<1>1. c \in outstanding /\ stack = << >> /\ outstanding = {c}
  BY DEF RequestCompletes, Completes, StateInv, OneOperation
<1>2. Append(<< >>, f) = <<f>>
  OBVIOUS
<1>3. /\ UNCHANGED <<ns_nvm_request_list, operation, alive, asked>>
      /\ outstanding' = {}
      /\ stack' = <<f>>
      /\ order' = Unlink(order, r)
      /\ done' = IF status = "PLATFORM_NVM_OK" THEN Append(done, c) ELSE done
  BY <1>1, <1>2 DEF RequestCompletes, CallBack
<1>4. OrderKept'
  BY <1>1, <1>3, OldestOut DEF OrderKept
<1>5. AskedKept'
  BY <1>3 DEF HistoryInv, AskedKept
<1>6. OnChain'
  BY <1>3 DEF OnChain
<1>7. ASSUME ClientRet(status) = "NS_NVM_OK"
      PROVE  /\ [k \in DOMAIN done' |-> done'[k].op] = chain
             /\ \A k \in DOMAIN done' : done'[k].req = r
  <2>1. status = "PLATFORM_NVM_OK"
    BY <1>7 DEF ClientRet, PlatformStatus
  <2>2. c.op \in {"flush", "read"}
    BY <2>1 DEF RequestCompletes
  <2>3. /\ Len(done) < Len(chain)
        /\ c.op = chain[Len(done) + 1]
        /\ \A k \in DOMAIN done : done[k] = [op |-> chain[k], req |-> r]
    BY <1>1, <2>2 DEF HistoryInv, OnChain
  <2>4. asked[r] \in ClientOp
    BY <1>1 DEF StateInv, OneOwner, HistoryInv, AskedKept
  <2>5. /\ chain \in Seq(PlatformOp)
        /\ \A k \in 1..Len(chain) : chain[k] \in {"flush", "read"} => k = Len(chain)
    BY <2>4, ChainStep
  <2>6. c = [op |-> c.op, req |-> r]
    BY DEF PlatformCall
  <2>7. done \in Seq(PlatformCall)
    BY DEF StateInv, TypeOK
  <2> DEFINE n == Len(done)
  <2>8. /\ n \in Nat /\ DOMAIN done = 1..n /\ DOMAIN done' = 1..(n + 1)
        /\ done'[n + 1] = c /\ \A k \in 1..n : done'[k] = done[k]
    BY <1>3, <2>1, <2>7
  <2> HIDE DEF n, r, chain
  <2>9. Len(chain) = n + 1
    <3>1. n + 1 \in 1..Len(chain)
      BY <2>3, <2>5, <2>8 DEF n
    <3> QED BY <2>2, <2>3, <2>5, <3>1 DEF n
  <2>10. \A k \in 1..(n + 1) : done'[k].op = chain[k] /\ done'[k].req = r
    BY <2>3, <2>6, <2>8 DEF n
  <2>11. DOMAIN chain = 1..(n + 1) /\ chain = [k \in DOMAIN chain |-> chain[k]]
    BY <2>5, <2>9
  <2> QED BY <2>8, <2>10, <2>11
<1>8. OkMeansDone'
  <2>1. DOMAIN stack' = {1} /\ stack'[1] = f /\ f.req = r /\ f.ret = ClientRet(status)
    BY <1>3
  <2>2. asked' = asked
    BY <1>3
  <2> QED BY <1>7, <2>1, <2>2 DEF OkMeansDone
<1> QED BY <1>4, <1>5, <1>6, <1>8 DEF HistoryInv

\* After its callback a request is of no concern any more.
LEMMA CallbackReturnsHistory ==
    ASSUME StateInv, HistoryInv, CallbackReturns
    PROVE  HistoryInv'
<1> DEFINE f == stack[1]
           g == [f EXCEPT !.at = "loop", !.e = FirstOf(ns_nvm_request_list)]
<1>1. Top = f /\ f \in Frame /\ Below = << >>
  BY OneCall DEF CallbackReturns, StateInv
<1>2. g.at = "loop"
  BY <1>1 DEF Frame
<1>3. Append(<< >>, g) = <<g>>
  OBVIOUS
<1>4. /\ UNCHANGED <<ns_nvm_request_list, operation, outstanding, order, asked, done>>
      /\ alive' \subseteq alive
      /\ stack' = <<g>>
  BY <1>1, <1>3 DEF CallbackReturns
<1> HIDE DEF f, g
<1>5. OkMeansDone'
  BY <1>2, <1>4 DEF OkMeansDone
<1> QED BY <1>4, <1>5 DEF HistoryInv, OrderKept, AskedKept, OnChain

\* The loop starts the oldest waiting request with what was asked.
LEMMA LoopTakesHistory ==
    ASSUME PlatformAccepts, StateInv, HistoryInv, LoopTakes
    PROVE  HistoryInv'
<1> DEFINE r == Top.e
           list == ns_nvm_request_list
<1>1. /\ Below = << >> /\ outstanding = {}
      /\ r = FirstOf(list) /\ r # NoRequest
  BY OneCall DEF LoopTakes, StateInv, OneFrame
<1>2. list \in Seq(Request) /\ IsInjective(list)
  BY DEF StateInv, TypeOK, OneOwner
<1>3. list # << >> /\ r = Head(list)
  BY <1>1 DEF FirstOf
<1>4. 1 \in DOMAIN list /\ list[1] = r /\ r \in Request
  BY <1>2, <1>3
<1>5. r \in Range(list)
  BY <1>4 DEF Range
<1>6. operation[r] \in ClientOp /\ operation[r] = asked[r]
  BY <1>5 DEF StateInv, UnstartedKeepsOp, HistoryInv, AskedKept
<1>7. /\ Unlink(list, r) = Tail(list)
      /\ Range(Tail(list)) = Range(list) \ {r}
  BY <1>2, <1>3, UnlinkHead, TailRange
<1>8. /\ list' = Unlink(list, r)
      /\ Continue(r, operation[r], outstanding)
      /\ stack' = Below
      /\ UNCHANGED <<order, alive, asked>>
  BY <1>5, <1>6, ContinueSucceeds DEF LoopTakes
<1>9. /\ list' = Tail(list)
      /\ stack' = << >>
      /\ outstanding' = {[op |-> FirstCall(operation[r]), req |-> r]}
      /\ operation' = [operation EXCEPT ![r] = FirstOperation(operation[r])]
      /\ done' = << >>
  BY <1>1, <1>7, <1>8 DEF Continue
<1> HIDE DEF r
<1>10. OrderKept'
  <2>1. order = list
    BY <1>1 DEF HistoryInv, OrderKept
  <2>2. list = <<r>> \o Tail(list)
    BY <1>2, <1>3
  <2>3. outstanding' # {} /\ \A d \in outstanding' : d.req = r
    BY <1>9
  <2>4. order' = <<r>> \o list'
    BY <1>8, <1>9, <2>1, <2>2
  <2> QED BY <2>3, <2>4 DEF OrderKept
<1>11. AskedKept'
  <2>1. \A x \in Request \ {r} : operation'[x] = operation[x]
    BY <1>9 DEF StateInv, TypeOK
  <2>2. Range(list) \subseteq Request
    BY DEF StateInv, TypeOK, OneOwner
  <2> QED BY <1>6, <1>7, <1>8, <1>9, <2>1, <2>2, FirstCallType DEF HistoryInv, AskedKept
<1>12. OnChain'
  BY <1>4, <1>6, <1>8, <1>9, StartsChain
<1>13. OkMeansDone'
  BY <1>9 DEF OkMeansDone
<1> QED BY <1>10, <1>11, <1>12, <1>13 DEF HistoryInv

\* The loop that ends changes nothing of it.
LEMMA LoopEndsHistory ==
    ASSUME StateInv, HistoryInv, LoopEnds
    PROVE  HistoryInv'
<1>1. Below = << >>
  BY OneCall DEF LoopEnds, StateInv
<1>2. /\ UNCHANGED <<ns_nvm_request_list, operation, alive, outstanding, order,
                      asked, done>>
      /\ stack' = << >>
  BY <1>1 DEF LoopEnds
<1>3. OkMeansDone'
  BY <1>2 DEF OkMeansDone
<1> QED BY <1>2, <1>3 DEF HistoryInv, OrderKept, AskedKept, OnChain

-----------------------------------------------------------------------------
(* The theorems *)

\* Every step keeps the invariant of the state.
LEMMA NextStateInv == PlatformAccepts /\ StateInv /\ [Next]_vars => StateInv'
<1> SUFFICES ASSUME PlatformAccepts, StateInv, [Next]_vars PROVE StateInv'
  OBVIOUS
<1>1. CASE Client
  BY <1>1, ApiStartStep, ApiEnqueueStep, ApiInitStep, RefusedStep
  DEF Client, ns_nvm_operation_start
<1>2. CASE Platform
  BY <1>2, InitCompletesStep, StepCompletesStep, RequestCompletesStep
  DEF Platform, ns_nvm_callback_func
<1>3. CASE Return
  BY <1>3, CallbackReturnsStep, LoopTakesStep, LoopEndsStep DEF Return
<1>4. CASE UNCHANGED vars
  <2>1. TypeOK'
    BY <1>4 DEF StateInv, TypeOK, vars, flags
  <2>2. OneOwner'
    BY <1>4 DEF StateInv, OneOwner, InCallback, vars, flags
  <2> QED BY <1>4, <2>1, <2>2 DEF StateInv, RemovesListed, OneOperation, FlagExact,
     NoneStranded, OneFrame, FreshUntilInit, UnstartedKeepsOp, vars, flags
<1> QED BY <1>1, <1>2, <1>3, <1>4 DEF Next

\* Every step keeps what the auxiliary variables record in agreement.
LEMMA NextHistoryInv == PlatformAccepts /\ IInv /\ [Next]_vars => HistoryInv'
<1> SUFFICES ASSUME PlatformAccepts, StateInv, HistoryInv, [Next]_vars
             PROVE  HistoryInv'
  BY DEF IInv
<1>1. CASE Client
  BY <1>1, ApiStartHistory, ApiEnqueueHistory, ApiInitHistory, RefusedHistory
  DEF Client, ns_nvm_operation_start
<1>2. CASE Platform
  BY <1>2, InitCompletesHistory, StepCompletesHistory, RequestCompletesHistory
  DEF Platform, ns_nvm_callback_func
<1>3. CASE Return
  BY <1>3, CallbackReturnsHistory, LoopTakesHistory, LoopEndsHistory DEF Return
<1>4. CASE UNCHANGED vars
  BY <1>4 DEF HistoryInv, OrderKept, AskedKept, OnChain, OkMeansDone, vars, flags
<1> QED BY <1>1, <1>2, <1>3, <1>4 DEF Next

\* With a platform that accepts what it is asked to start, the variables of
\* ns_nvm_helper.c keep their types, the flag, the list, the request objects
\* and the platform's operation stay consistent, and requests are worked off
\* in order and completely: IInv holds always.
THEOREM Invariance == PlatformAccepts => (Spec => []IInv)
<1> SUFFICES ASSUME PlatformAccepts PROVE Spec => []IInv
  OBVIOUS
<1>1. IInv /\ [Next]_vars => IInv'
  BY NextStateInv, NextHistoryInv DEF IInv
<1>2. Init => IInv
  BY InitStateInv, InitHistoryInv DEF IInv
<1> QED BY <1>1, <1>2, PTL DEF Spec

\* TypeOK for every set of requests.
THEOREM TypeCorrect == PlatformAccepts => (Spec => []TypeOK)
<1>1. IInv => TypeOK
  BY DEF IInv, StateInv
<1> QED BY <1>1, Invariance, PTL

\* ns_nvm_helper.c never has two operations with the platform, as
\* arm_hal_nvm.h:30-31 demands, even if clients call the API from callbacks.
THEOREM SingleOperation == PlatformAccepts => (Spec => []OneOperation)
<1>1. IInv => OneOperation
  BY DEF IInv, StateInv
<1> QED BY <1>1, Invariance, PTL

\* Every allocated request object has exactly one owner: no leak, no use
\* after free, no object on the list twice.
THEOREM Ownership == PlatformAccepts => (Spec => []OneOwner)
<1>1. IInv => OneOwner
  BY DEF IInv, StateInv
<1> QED BY <1>1, Invariance, PTL

\* No request waits while nothing is in progress that would wake it.
THEOREM NoLostWakeup == PlatformAccepts => (Spec => []NoneStranded)
<1>1. IInv => NoneStranded
  BY DEF IInv, StateInv
<1> QED BY <1>1, Invariance, PTL

\* The in-progress flag is exact at every moment: up while the platform has an
\* operation or a client is in its callback, down otherwise.  So a request made
\* in a callback is never started next to another, and none made outside waits
\* for nothing.
THEOREM FlagCorrect == PlatformAccepts => (Spec => []FlagUntilReturn)
<1>1. IInv => FlagUntilReturn
  <2> SUFFICES ASSUME TypeOK, OneFrame, FlagExact PROVE FlagUntilReturn
    BY DEF IInv, StateInv
  <2>1. CASE stack = << >>
    <3>1. InCallback = {}
      BY <2>1, CallbacksOfOne DEF InCallback
    <3> QED BY <2>1, <3>1 DEF FlagExact, FlagUntilReturn
  <2>2. CASE stack # << >>
    <3>1. stack[1] \in Frame /\ stack = <<stack[1]>>
      BY <2>2, OneCall DEF TypeOK
    <3>2. InCallback = IF stack[1].at = "callback" THEN {stack[1].req} ELSE {}
      BY <3>1, CallbacksOfOne DEF InCallback
    <3>3. outstanding = {} /\ (ns_nvm_operation_in_progress <=> stack[1].at = "callback")
      BY <2>2 DEF OneFrame
    <3> QED BY <3>2, <3>3 DEF FlagUntilReturn
  <2> QED BY <2>1, <2>2
<1> QED BY <1>1, Invariance, PTL

\* The loop of ns_nvm_operation_end removes only entries that are on the list.
THEOREM NoStaleRemoval == PlatformAccepts => (Spec => []RemovesListed)
<1>1. IInv => RemovesListed
  BY DEF IInv, StateInv
<1> QED BY <1>1, Invariance, PTL

\* A client that is told NS_NVM_OK has had every platform operation of its
\* request done, in order, with no operation of another request in between.
THEOREM OkIsDone == PlatformAccepts => (Spec => []OkMeansDone)
<1>1. IInv => OkMeansDone
  BY DEF IInv, HistoryInv
<1> QED BY <1>1, Invariance, PTL

\* Only the completion of a request calls ns_nvm_operation_end, and then for
\* the oldest request.
LEMMA CallsOldest ==
    ASSUME PlatformAccepts, IInv, [Next]_vars, Len(stack') > Len(stack)
    PROVE  order # << >> /\ stack'[Len(stack')].req = Head(order)
<1>1. StateInv /\ HistoryInv /\ stack \in Seq(Frame) /\ Len(stack) \in Nat
  BY DEF IInv, StateInv, TypeOK
<1>2. stack' # stack
  BY <1>1
<1>3. CASE Client
  BY <1>2, <1>3 DEF Client, ns_nvm_operation_start, ApiStart, ApiEnqueue,
                    ApiInit, ApiInitFails, ApiRefused
<1>4. CASE Return
  <2>1. stack # << >>
    BY <1>4 DEF Return, CallbackReturns, LoopTakes, LoopEnds
  <2>2. Len(stack) = 1 /\ Below = << >>
    BY <1>1, <2>1, OneCall DEF StateInv
  <2>3. CASE CallbackReturns
    <3> DEFINE g == [Top EXCEPT !.at = "loop", !.e = FirstOf(ns_nvm_request_list)]
    <3>1. stack' = Append(<< >>, g)
      BY <2>2, <2>3 DEF CallbackReturns
    <3> HIDE DEF g
    <3>2. Len(stack') = 1
      BY <3>1
    <3> QED BY <2>2, <3>2
  <2>4. CASE LoopTakes
    <3>1. StateInv'
      BY <1>1, <2>4, LoopTakesStep
    <3> QED BY <2>2, <3>1 DEF StateInv, OneFrame
  <2>5. CASE LoopEnds
    <3>1. StateInv'
      BY <1>1, <2>5, LoopEndsStep
    <3> QED BY <2>2, <3>1 DEF StateInv, OneFrame
  <2> QED BY <1>4, <2>3, <2>4, <2>5 DEF Return
<1>5. CASE Platform
  <2>1. PICK c \in PlatformCall, status \in PlatformStatus : RequestCompletes(c, status)
    BY <1>2, <1>5 DEF Platform, ns_nvm_callback_func, InitCompletes, StepCompletes
  <2> DEFINE f == [req |-> c.req, ret |-> ClientRet(status), at |-> "callback",
                   e |-> NoRequest]
  <2>2. c \in outstanding /\ stack = << >> /\ stack' = Append(<< >>, f)
    BY <2>1 DEF RequestCompletes, Completes, CallBack
  <2>3. f.req = c.req
    OBVIOUS
  <2> HIDE DEF f
  <2>4. Len(stack') = 1 /\ stack'[1] = f
    BY <2>2
  <2> QED BY <1>1, <2>2, <2>3, <2>4, OldestOut
<1>6. CASE UNCHANGED vars
  BY <1>2, <1>6 DEF vars
<1> QED BY <1>3, <1>4, <1>5, <1>6 DEF Next

\* Requests are called back in the order in which they were accepted, and
\* each once: ns_nvm_helper.c serves its list first come, first served.
THEOREM FirstComeFirstServed == PlatformAccepts => (Spec => CalledBackInOrder)
<1> SUFFICES ASSUME PlatformAccepts PROVE Spec => CalledBackInOrder
  OBVIOUS
<1>1. IInv /\ [Next]_vars =>
          [Len(stack') > Len(stack) =>
              order # << >> /\ stack'[Len(stack')].req = Head(order)]_vars
  BY CallsOldest
<1>2. Spec => []IInv
  BY Invariance
<1> QED BY <1>1, <1>2, PTL DEF Spec, CalledBackInOrder


-----------------------------------------------------------------------------
(* A platform that refuses: ns_nvm_operation_end calls itself *)

\* The values of operation fields.
OperationType == ClientOp \cup {"NS_NVM_NONE", "NS_NVM_KEY_CREATE", "NS_NVM_FLUSH"}

\* The first platform call of a request, whatever its operation field says.
LEMMA AnyCallType ==
    ASSUME NEW op \in OperationType
    PROVE  FirstCall(op) \in PlatformOp /\ FirstOperation(op) \in OperationType
BY DEF OperationType, ClientOp, PlatformOp, FirstCall, FirstOperation

\* The top call and the calls under it.
LEMMA StackParts ==
    ASSUME TypeOK, stack # << >>
    PROVE  /\ Len(stack) \in Nat /\ Len(stack) >= 1
           /\ DOMAIN stack = 1..Len(stack) /\ Len(stack) \in DOMAIN stack
           /\ Top = stack[Len(stack)] /\ Top \in Frame
           /\ Below \in Seq(Frame) /\ Len(Below) = Len(stack) - 1
           /\ DOMAIN Below = 1..(Len(stack) - 1)
           /\ \A i \in DOMAIN Below : Below[i] = stack[i]
<1>1. stack \in Seq(Frame)
  BY DEF TypeOK
<1>2. Len(stack) \in Nat /\ Len(stack) >= 1 /\ DOMAIN stack = 1..Len(stack)
  BY <1>1
<1>3. Top = stack[Len(stack)] /\ Top \in Frame
  BY <1>1, <1>2 DEF Top
<1> DEFINE n == Len(stack) - 1
           s == SubSeq(stack, 1, n)
<1>4. n \in Nat /\ n <= Len(stack)
  BY <1>2
<1>5. s \in Seq(Frame) /\ Len(s) = n /\ \A i \in 1..n : s[i] = stack[i]
  <2> HIDE DEF n
  <2> QED BY <1>1, <1>4
<1>6. DOMAIN s = 1..n
  BY <1>5
<1> QED BY <1>2, <1>3, <1>5, <1>6 DEF Below

\* A call on top of others.
LEMMA Pushed ==
    ASSUME NEW s \in Seq(Frame), NEW f \in Frame
    PROVE  /\ Append(s, f) \in Seq(Frame) /\ Append(s, f) # << >>
           /\ Len(s) \in Nat /\ Len(Append(s, f)) = Len(s) + 1
           /\ DOMAIN Append(s, f) = 1..(Len(s) + 1)
           /\ \A i \in 1..Len(s) : Append(s, f)[i] = s[i]
           /\ Append(s, f)[Len(s) + 1] = f
OBVIOUS

\* Only the top call can be in a callback.
CallbackIsTop ==
    TypeOK /\ Nested =>
        InCallback = IF stack # << >> /\ Top.at = "callback" THEN {Top.req} ELSE {}

\* CallbackIsTop holds in every state.
LEMMA OnlyTopCallsBack == CallbackIsTop
<1> SUFFICES ASSUME TypeOK, Nested
             PROVE  InCallback = IF stack # << >> /\ Top.at = "callback" THEN {Top.req} ELSE {}
  BY DEF CallbackIsTop
<1>1. CASE stack = << >>
  BY <1>1, CallbacksOfOne DEF InCallback
<1>2. CASE stack # << >>
  <2> DEFINE n == Len(stack)
  <2>1. n \in Nat /\ DOMAIN stack = 1..n /\ n \in DOMAIN stack /\ Top = stack[n]
    BY <1>2, StackParts
  <2>2. \A i \in 1..n : i < n => stack[i].at = "loop"
    BY <2>1 DEF Nested
  <2> HIDE DEF n
  <2>3. {i \in DOMAIN stack : stack[i].at = "callback"} =
            IF stack[n].at = "callback" THEN {n} ELSE {}
    <3>1. \A i \in 1..n : i # n => i < n
      BY <2>1
    <3> QED BY <2>1, <2>2, <3>1
  <2> QED BY <1>2, <2>1, <2>3 DEF InCallback, CallbacksOf
<1> QED BY <1>1, <1>2

\* What RefusedInv says of the list and of who has what.
RefusedFacts ==
    RefusedInv =>
        /\ ns_nvm_request_list \in Seq(Request) /\ IsInjective(ns_nvm_request_list)
        /\ Range(ns_nvm_request_list) \subseteq Request
        /\ operation \in [Request -> OperationType]
        /\ InCallback = IF stack # << >> /\ Top.at = "callback" THEN {Top.req} ELSE {}
        /\ stack # << >> /\ Top.at = "callback" => Top.req \notin Range(ns_nvm_request_list)
        /\ NoRequest \notin Range(ns_nvm_request_list)

\* RefusedFacts holds in every state.
LEMMA RefusedFactsHold == RefusedFacts
<1> SUFFICES ASSUME RefusedInv PROVE RefusedFacts
  BY DEF RefusedFacts
<1>1. TypeOK /\ OneOwner /\ Nested
  BY DEF RefusedInv
<1>2. /\ ns_nvm_request_list \in Seq(Request) /\ IsInjective(ns_nvm_request_list)
      /\ Range(ns_nvm_request_list) \subseteq Request
      /\ operation \in [Request -> OperationType]
  BY <1>1 DEF TypeOK, OneOwner, OperationType
<1>3. InCallback = IF stack # << >> /\ Top.at = "callback" THEN {Top.req} ELSE {}
  BY <1>1, OnlyTopCallsBack DEF CallbackIsTop
<1>4. InCallback \cap Range(ns_nvm_request_list) = {}
  BY <1>1 DEF OneOwner
<1> QED BY <1>2, <1>3, <1>4, RequestAssumption DEF RefusedFacts

\* The invariant after a step that ends with no call active.
LEMMA NoCallActive ==
    ASSUME TypeOK', OneOperation', FreshUntilInit', stack' = << >>,
           ns_nvm_operation_in_progress' <=> outstanding' # {},
           FewRequests => ~corrupt',
           alive' = Range(ns_nvm_request_list') \cup {c.req : c \in outstanding'},
           Range(ns_nvm_request_list') \cap {c.req : c \in outstanding'} = {},
           IsInjective(ns_nvm_request_list')
    PROVE  RefusedInv'
<1>1. InCallback' = {} /\ DOMAIN stack' = {}
  BY CallbacksOfOne DEF InCallback
<1>2. OneOwner'
  BY <1>1 DEF OneOwner
<1>3. Nested' /\ FlagKept' /\ (FewRequests => NoSecondEntry')
  BY <1>1 DEF Nested, FlagKept, NoSecondEntry
<1> QED BY <1>2, <1>3 DEF RefusedInv, FewRequests

\* With no call active the flag, the list and the platform share the requests.
LEMMA NothingActive ==
    ASSUME RefusedInv, stack = << >>
    PROVE  /\ ns_nvm_operation_in_progress <=> outstanding # {}
           /\ alive = Range(ns_nvm_request_list) \cup {c.req : c \in outstanding}
           /\ Range(ns_nvm_request_list) \cap {c.req : c \in outstanding} = {}
           /\ FewRequests => ~corrupt
<1>1. InCallback = {}
  BY CallbacksOfOne DEF InCallback
<1> QED BY <1>1 DEF RefusedInv, OneOwner, FlagKept, NoSecondEntry

\* The initial state satisfies it.
LEMMA InitRefusedInv == Init => RefusedInv
<1> SUFFICES ASSUME Init PROVE RefusedInv
  OBVIOUS
<1>1. TypeOK /\ OneOwner /\ OneOperation /\ FreshUntilInit
  BY InitStateInv DEF StateInv
<1>2. DOMAIN stack = {}
  BY DEF Init
<1> QED BY <1>1, <1>2 DEF Init, RefusedInv, FlagKept, Nested, NoSecondEntry

\* API calls that fail at once.
LEMMA RefusedCalls ==
    ASSUME RefusedInv, NEW code \in {"NS_NVM_ERROR", "NS_NVM_MEMORY"},
           ApiRefused(code) \/ ApiInitFails
    PROVE  RefusedInv'
<1>1. /\ UNCHANGED <<flags, ns_nvm_request_list, operation, outstanding, stack,
                      corrupt, done, alive, order, asked>>
      /\ answer' \in ReturnCode
  BY DEF ApiRefused, ApiInitFails, Refuse, ReturnCode
<1>2. TypeOK'
  BY <1>1 DEF RefusedInv, TypeOK, flags
<1>3. OneOwner' /\ Nested'
  BY <1>1 DEF RefusedInv, OneOwner, InCallback, Nested, Top
<1> QED
  BY <1>1, <1>2, <1>3 DEF RefusedInv, OneOperation, FlagKept, FreshUntilInit, FewRequests,
     NoSecondEntry, Top, flags

\* A request that starts at once, or is refused.
LEMMA ApiStartRefused ==
    ASSUME ~Reentrant, RefusedInv, NEW r \in Request, NEW op \in ClientOp, ApiStart(r, op)
    PROVE  RefusedInv'
<1>1. /\ stack = << >> /\ r \notin alive /\ ~ns_nvm_operation_in_progress
      /\ ns_nvm_initialized
      /\ UNCHANGED <<ns_nvm_initialized, ns_nvm_request_list, stack, corrupt>>
  BY DEF ApiStart, ClientRuns
<1>2. /\ outstanding = {} /\ (FewRequests => ~corrupt)
      /\ alive = Range(ns_nvm_request_list) \cup {c.req : c \in outstanding}
  BY <1>1, NothingActive
<1>3. alive = Range(ns_nvm_request_list)
  BY <1>2
<1>4. TypeOK /\ IsInjective(ns_nvm_request_list) /\ operation \in [Request -> OperationType]
  BY RefusedFactsHold DEF RefusedFacts, RefusedInv
<1>5. FirstCall(op) \in PlatformOp /\ FirstOperation(op) \in OperationType
  BY AnyCallType DEF OperationType
<1>6. CASE Continue(r, op, outstanding) /\ Accept(r, op)
  <2>1. /\ ns_nvm_operation_in_progress' = TRUE /\ done' = << >>
        /\ operation' = [operation EXCEPT ![r] = FirstOperation(op)]
        /\ outstanding' = {[op |-> FirstCall(op), req |-> r]}
        /\ alive' = alive \cup {r} /\ order' = Append(order, r)
        /\ asked' = [asked EXCEPT ![r] = op] /\ answer' = "NS_NVM_OK"
    BY <1>2, <1>6 DEF Continue, Accept
  <2>2. TypeOK'
    <3>1. operation' \in [Request -> OperationType] /\ outstanding' \subseteq PlatformCall
      BY <1>4, <1>5, <2>1 DEF PlatformCall
    <3>2. order' \in Seq(Request) /\ done' \in Seq(PlatformCall)
      BY <1>4, <2>1, AppendRange DEF TypeOK
    <3> QED BY <1>1, <1>4, <2>1, <3>1, <3>2 DEF TypeOK, OperationType, ReturnCode
  <2>3. {c.req : c \in outstanding'} = {r} /\ outstanding' # {}
    BY <2>1
  <2>4. OneOperation' /\ FreshUntilInit'
    BY <1>1, <2>1 DEF OneOperation, FreshUntilInit
  <2> QED BY <1>1, <1>2, <1>3, <1>4, <2>1, <2>2, <2>3, <2>4, NoCallActive
<1>7. CASE ContinueFails(r, op, outstanding) /\ Refuse("NS_NVM_ERROR")
  <2>1. /\ ns_nvm_operation_in_progress' = FALSE /\ outstanding' = {}
        /\ operation' = [operation EXCEPT ![r] = FirstOperation(op)]
        /\ answer' = "NS_NVM_ERROR" /\ UNCHANGED <<alive, order, asked, done>>
    BY <1>2, <1>7 DEF ContinueFails, Refuse
  <2>2. TypeOK'
    <3>1. operation' \in [Request -> OperationType]
      BY <1>4, <1>5, <2>1
    <3> QED BY <1>1, <1>4, <2>1, <3>1 DEF TypeOK, OperationType, ReturnCode
  <2>3. {c.req : c \in outstanding'} = {}
    BY <2>1
  <2>4. OneOperation' /\ FreshUntilInit'
    BY <1>1, <2>1 DEF OneOperation, FreshUntilInit
  <2> QED BY <1>1, <1>2, <1>3, <1>4, <2>1, <2>2, <2>3, <2>4, NoCallActive
<1> QED BY <1>6, <1>7 DEF ApiStart

\* A request that waits.
LEMMA ApiEnqueueRefused ==
    ASSUME ~Reentrant, RefusedInv, NEW r \in Request, NEW op \in ClientOp, ApiEnqueue(r, op)
    PROVE  RefusedInv'
<1>1. /\ stack = << >> /\ r \notin alive
      /\ UNCHANGED <<ns_nvm_initialized, ns_nvm_operation_in_progress, outstanding, stack,
                     corrupt, done>>
      /\ ns_nvm_initialized
      /\ ns_nvm_request_list' = Append(ns_nvm_request_list, r)
      /\ operation' = [operation EXCEPT ![r] = op]
      /\ alive' = alive \cup {r} /\ order' = Append(order, r)
      /\ asked' = [asked EXCEPT ![r] = op] /\ answer' = "NS_NVM_OK"
  BY DEF ApiEnqueue, ClientRuns, Accept, flags
<1>2. /\ ns_nvm_operation_in_progress <=> outstanding # {}
      /\ FewRequests => ~corrupt
      /\ alive = Range(ns_nvm_request_list) \cup {c.req : c \in outstanding}
      /\ Range(ns_nvm_request_list) \cap {c.req : c \in outstanding} = {}
  BY <1>1, NothingActive
<1>3. /\ TypeOK /\ IsInjective(ns_nvm_request_list) /\ ns_nvm_request_list \in Seq(Request)
      /\ operation \in [Request -> OperationType]
  BY RefusedFactsHold DEF RefusedFacts, RefusedInv
<1>4. /\ ns_nvm_request_list' \in Seq(Request)
      /\ Range(ns_nvm_request_list') = Range(ns_nvm_request_list) \cup {r}
      /\ IsInjective(ns_nvm_request_list')
  BY <1>1, <1>2, <1>3, AppendRange
<1>5. TypeOK'
  <2>1. operation' \in [Request -> OperationType]
    BY <1>1, <1>3 DEF OperationType
  <2>2. order' \in Seq(Request)
    BY <1>1, <1>3, AppendRange DEF TypeOK
  <2> QED BY <1>1, <1>3, <1>4, <2>1, <2>2 DEF TypeOK, OperationType, ReturnCode
<1>6. OneOperation' /\ FreshUntilInit'
  BY <1>1 DEF RefusedInv, OneOperation, FreshUntilInit
<1> QED BY <1>1, <1>2, <1>4, <1>5, <1>6, NoCallActive

\* The first request.
LEMMA ApiInitRefused ==
    ASSUME RefusedInv, NEW r \in Request, NEW op \in ClientOp, ApiInit(r, op)
    PROVE  RefusedInv'
<1>1. outstanding = {} /\ ns_nvm_request_list = << >> /\ stack = << >>
  BY DEF RefusedInv, FreshUntilInit, ApiInit
<1>2. /\ UNCHANGED <<stack, corrupt, done>> /\ ns_nvm_request_list' = << >>
      /\ ns_nvm_initialized' = TRUE /\ ns_nvm_operation_in_progress' = TRUE
      /\ operation' = [operation EXCEPT ![r] = op]
      /\ outstanding' = {[op |-> "init", req |-> r]}
      /\ alive' = alive \cup {r} /\ order' = Append(order, r)
      /\ asked' = [asked EXCEPT ![r] = op] /\ answer' = "NS_NVM_OK"
  BY <1>1 DEF ApiInit, Accept
<1>3. TypeOK /\ operation \in [Request -> OperationType]
  BY RefusedFactsHold DEF RefusedFacts, RefusedInv
<1>4. TypeOK'
  <2>1. operation' \in [Request -> OperationType] /\ outstanding' \subseteq PlatformCall
    BY <1>2, <1>3 DEF OperationType, PlatformCall, PlatformOp
  <2>2. order' \in Seq(Request)
    BY <1>2, <1>3, AppendRange DEF TypeOK
  <2> QED BY <1>2, <1>3, <2>1, <2>2 DEF TypeOK, OperationType, ReturnCode
<1>5. Range(<< >>) = {} /\ IsInjective(<< >>)
  BY DEF Range, IsInjective
<1>6. alive = {} /\ (FewRequests => ~corrupt)
  BY <1>1, <1>5, NothingActive
<1>7. {c.req : c \in outstanding'} = {r} /\ outstanding' # {}
  BY <1>2
<1>8. OneOperation' /\ FreshUntilInit'
  BY <1>2 DEF OneOperation, FreshUntilInit
<1> QED BY <1>1, <1>2, <1>4, <1>5, <1>6, <1>7, <1>8, NoCallActive

\* The initialization is over: the first request goes on, or is refused and
\* freed.
LEMMA InitCompletesRefused ==
    ASSUME RefusedInv, NEW c \in PlatformCall, InitCompletes(c)
    PROVE  RefusedInv'
<1> DEFINE r == c.req
           op == operation[r]
<1>1. /\ r \in Request /\ c \in outstanding /\ stack = << >> /\ outstanding = {c}
      /\ UNCHANGED <<ns_nvm_initialized, ns_nvm_request_list, stack, corrupt, answer,
                     order, asked>>
  BY DEF PlatformCall, InitCompletes, Completes, RefusedInv, OneOperation
<1>2. /\ FewRequests => ~corrupt
      /\ alive = Range(ns_nvm_request_list) \cup {d.req : d \in outstanding}
      /\ Range(ns_nvm_request_list) \cap {d.req : d \in outstanding} = {}
  BY <1>1, NothingActive
<1>3. {d.req : d \in outstanding} = {r}
  BY <1>1
<1>4. TypeOK /\ IsInjective(ns_nvm_request_list) /\ operation \in [Request -> OperationType]
  BY RefusedFactsHold DEF RefusedFacts, RefusedInv
<1>5. FirstCall(op) \in PlatformOp /\ FirstOperation(op) \in OperationType
  BY <1>1, <1>4, AnyCallType
<1>6. ns_nvm_initialized
  BY <1>1 DEF RefusedInv, FreshUntilInit
<1>7. CASE Continue(r, op, outstanding \ {c}) /\ alive' = alive
  <2>1. /\ ns_nvm_operation_in_progress' = TRUE /\ done' = << >>
        /\ operation' = [operation EXCEPT ![r] = FirstOperation(op)]
        /\ outstanding' = {[op |-> FirstCall(op), req |-> r]}
    BY <1>1, <1>7 DEF Continue
  <2> HIDE DEF r, op
  <2>2. TypeOK'
    <3>1. operation' \in [Request -> OperationType] /\ outstanding' \subseteq PlatformCall
      BY <1>1, <1>4, <1>5, <2>1 DEF PlatformCall
    <3>2. done' \in Seq(PlatformCall)
      BY <2>1
    <3> QED BY <1>1, <1>4, <1>7, <2>1, <3>1, <3>2 DEF TypeOK, OperationType
  <2>3. {d.req : d \in outstanding'} = {r} /\ outstanding' # {}
    BY <2>1
  <2>4. OneOperation' /\ FreshUntilInit'
    BY <1>1, <1>6, <2>1 DEF OneOperation, FreshUntilInit
  <2> QED BY <1>1, <1>2, <1>3, <1>4, <1>7, <2>1, <2>2, <2>3, <2>4, NoCallActive
<1>8. CASE ContinueFails(r, op, outstanding \ {c}) /\ alive' = alive \ {r}
  <2>1. /\ ns_nvm_operation_in_progress' = FALSE /\ outstanding' = {}
        /\ operation' = [operation EXCEPT ![r] = FirstOperation(op)] /\ done' = done
    BY <1>1, <1>8 DEF ContinueFails
  <2> HIDE DEF r, op
  <2>2. TypeOK'
    <3>1. operation' \in [Request -> OperationType]
      BY <1>4, <1>5, <2>1
    <3> QED BY <1>1, <1>4, <1>8, <2>1, <3>1 DEF TypeOK, OperationType
  <2>3. {d.req : d \in outstanding'} = {}
    BY <2>1
  <2>4. OneOperation' /\ FreshUntilInit'
    BY <1>1, <1>6, <2>1 DEF OneOperation, FreshUntilInit
  <2>5. alive' = Range(ns_nvm_request_list)
    BY <1>2, <1>3, <1>8
  <2> QED BY <1>1, <1>2, <1>4, <2>1, <2>2, <2>3, <2>4, <2>5, NoCallActive
<1> QED BY <1>7, <1>8 DEF InitCompletes

\* Within a chain one operation replaces another.
LEMMA StepCompletesRefused ==
    ASSUME ChainsGoOn, RefusedInv, NEW c \in PlatformCall, StepCompletes(c)
    PROVE  RefusedInv'
<1> DEFINE r == c.req
<1>1. /\ r \in Request /\ c \in outstanding /\ stack = << >> /\ outstanding = {c}
      /\ UNCHANGED <<ns_nvm_initialized, ns_nvm_operation_in_progress, ns_nvm_request_list,
                     alive, stack, corrupt, answer, order, asked>>
  BY DEF PlatformCall, StepCompletes, Completes, RefusedInv, OneOperation, flags
<1>2. /\ ns_nvm_operation_in_progress <=> outstanding # {}
      /\ FewRequests => ~corrupt
      /\ alive = Range(ns_nvm_request_list) \cup {d.req : d \in outstanding}
      /\ Range(ns_nvm_request_list) \cap {d.req : d \in outstanding} = {}
  BY <1>1, NothingActive
<1>3. Follows(c) \in {"write", "flush"} /\ FollowsOperation(c) \in OperationType
  BY DEF Follows, FollowsOperation, OperationType, ClientOp
<1>4. /\ outstanding' = {[op |-> Follows(c), req |-> r]}
      /\ operation' = [operation EXCEPT ![r] = FollowsOperation(c)]
      /\ done' = Append(done, c)
  BY <1>1, <1>3 DEF StepCompletes, ChainsGoOn
<1>5. {d.req : d \in outstanding'} = {d.req : d \in outstanding} /\ outstanding' # {}
  BY <1>1, <1>4
<1>6. TypeOK /\ IsInjective(ns_nvm_request_list) /\ operation \in [Request -> OperationType]
  BY RefusedFactsHold DEF RefusedFacts, RefusedInv
<1> HIDE DEF r
<1>7. TypeOK'
  <2>1. operation' \in [Request -> OperationType] /\ outstanding' \subseteq PlatformCall
    BY <1>1, <1>3, <1>4, <1>6 DEF PlatformCall, PlatformOp
  <2>2. done' \in Seq(PlatformCall)
    BY <1>4, <1>6, AppendRange DEF TypeOK
  <2> QED BY <1>1, <1>6, <2>1, <2>2 DEF TypeOK, OperationType
<1>8. OneOperation' /\ FreshUntilInit'
  BY <1>1, <1>4 DEF RefusedInv, OneOperation, FreshUntilInit
<1> QED BY <1>1, <1>2, <1>5, <1>6, <1>7, <1>8, NoCallActive


\* The platform is done with a request: its client's callback runs.
LEMMA RequestCompletesRefused ==
    ASSUME RefusedInv, NEW c \in PlatformCall, NEW status \in PlatformStatus,
           RequestCompletes(c, status)
    PROVE  RefusedInv'
<1> DEFINE f == [req |-> c.req, ret |-> ClientRet(status), at |-> "callback",
                 e |-> NoRequest]
<1>1. /\ c \in outstanding /\ stack = << >> /\ outstanding = {c}
      /\ UNCHANGED <<ns_nvm_initialized, ns_nvm_operation_in_progress, ns_nvm_request_list,
                     operation, alive, corrupt, answer, asked>>
      /\ outstanding' = {} /\ stack' = Append(<< >>, f)
      /\ order' = Unlink(order, c.req)
      /\ done' = done \/ done' = Append(done, c)
  BY DEF RequestCompletes, Completes, RefusedInv, OneOperation, CallBack, flags
<1>2. f \in Frame /\ f.at = "callback" /\ f.req = c.req /\ f.e = NoRequest
  BY DEF Frame, PlatformCall, ReturnCode, ClientRet
<1> HIDE DEF f
<1>3. /\ stack' \in Seq(Frame) /\ Len(stack') = 1 /\ DOMAIN stack' = {1} /\ stack'[1] = f
      /\ stack' # << >> /\ Top' = f
  <2>1. << >> \in Seq(Frame) /\ Len(<< >>) = 0 /\ 1..1 = {1}
    OBVIOUS
  <2>2. /\ stack' \in Seq(Frame) /\ Len(stack') = 1 /\ DOMAIN stack' = {1} /\ stack'[1] = f
        /\ stack' # << >>
    BY <1>1, <1>2, <2>1, Pushed
  <2> QED BY <2>2 DEF Top
<1>4. /\ alive = Range(ns_nvm_request_list) \cup {d.req : d \in outstanding}
      /\ Range(ns_nvm_request_list) \cap {d.req : d \in outstanding} = {}
      /\ FewRequests => ~corrupt
  BY <1>1, NothingActive
<1>5. {d.req : d \in outstanding} = {c.req} /\ {d.req : d \in outstanding'} = {}
  BY <1>1
<1>6. /\ TypeOK /\ OneOperation /\ FreshUntilInit /\ IsInjective(ns_nvm_request_list)
  BY RefusedFactsHold DEF RefusedFacts, RefusedInv
<1>7. TypeOK'
  <2>1. order' \in Seq(Request)
    <3>1. order \in Seq(Request)
      BY <1>6 DEF TypeOK
    <3> QED BY <1>1, <3>1, UnlinkType
  <2>2. done' \in Seq(PlatformCall)
    <3>1. done \in Seq(PlatformCall)
      BY <1>6 DEF TypeOK
    <3>2. Append(done, c) \in Seq(PlatformCall)
      BY <3>1, AppendRange
    <3> QED BY <1>1, <3>1, <3>2
  <2> QED BY <1>1, <1>3, <1>6, <2>1, <2>2 DEF TypeOK
<1>8. Nested'
  BY <1>1, <1>2, <1>3 DEF Nested
<1>9. OneOwner'
  <2>1. CallbackIsTop'
    BY OnlyTopCallsBack, PTL
  <2>2. InCallback' = {c.req}
    BY <1>2, <1>3, <1>7, <1>8, <2>1 DEF CallbackIsTop
  <2> QED BY <1>1, <1>4, <1>5, <1>6, <2>2 DEF OneOwner
<1>10. OneOperation' /\ FlagKept' /\ FreshUntilInit'
  BY <1>1, <1>2, <1>3, <1>6 DEF OneOperation, FlagKept, FreshUntilInit
<1>11. FewRequests => NoSecondEntry'
  <2>1. c.req \notin Range(ns_nvm_request_list')
    BY <1>1, <1>4, <1>5
  <2> QED BY <1>1, <1>2, <1>3, <1>4, <2>1 DEF NoSecondEntry
<1> QED BY <1>7, <1>8, <1>9, <1>10, <1>11 DEF RefusedInv, FewRequests

\* The callback returns: the loop starts with the oldest waiting request.
LEMMA CallbackReturnsRefused ==
    ASSUME RefusedInv, CallbackReturns
    PROVE  RefusedInv'
<1> DEFINE n == Len(stack)
           list == ns_nvm_request_list
           g == [Top EXCEPT !.at = "loop", !.e = FirstOf(list)]
<1>1. /\ stack # << >> /\ Top.at = "callback" /\ alive' = alive \ {Top.req}
      /\ ns_nvm_operation_in_progress' = FALSE /\ stack' = Append(Below, g)
      /\ UNCHANGED <<ns_nvm_initialized, ns_nvm_request_list, operation, outstanding,
                     corrupt, answer, order, asked, done>>
  BY DEF CallbackReturns
<1>2. TypeOK /\ OneOwner /\ Nested /\ OneOperation /\ FreshUntilInit
  BY DEF RefusedInv
<1>3. /\ n \in Nat /\ n >= 1 /\ DOMAIN stack = 1..n /\ Top = stack[n] /\ Top \in Frame
      /\ Below \in Seq(Frame) /\ Len(Below) = n - 1
      /\ DOMAIN Below = 1..(n - 1) /\ \A i \in DOMAIN Below : Below[i] = stack[i]
  BY <1>1, <1>2, StackParts
<1>4. list \in Seq(Request) /\ InCallback = {Top.req} /\ Top.req \notin Range(list)
  BY <1>1, RefusedFactsHold DEF RefusedFacts
<1>5. FirstOf(list) \in Request \cup {NoRequest}
  BY <1>4 DEF FirstOf
<1>6. g \in Frame /\ g.at = "loop" /\ g.e = FirstOf(list) /\ g.req = Top.req
  BY <1>3, <1>5 DEF Frame
<1> HIDE DEF n, g
<1>7. /\ stack' \in Seq(Frame) /\ stack' # << >> /\ Len(stack') = n
      /\ DOMAIN stack' = 1..n /\ stack'[n] = g
      /\ \A i \in 1..n : i < n => stack'[i] = stack[i]
  <2>1. (n - 1) + 1 = n /\ \A i \in 1..n : i < n => i \in 1..(n - 1)
    BY <1>3
  <2> QED BY <1>1, <1>3, <1>6, <2>1, Pushed
<1>8. Top' = g
  BY <1>7 DEF Top
<1>9. outstanding = {}
  BY <1>1, <1>2 DEF Nested
<1>10. TypeOK'
  BY <1>1, <1>2, <1>7 DEF TypeOK
<1>11. \A i \in 1..n : i # n => i < n
  BY <1>3
<1>12. Nested'
  <2>1. \A i \in 1..n : i < n => stack'[i].at = "loop"
    BY <1>2, <1>3, <1>7 DEF Nested, n
  <2>2. ASSUME NEW i \in 1..n, stack'[i].e \in Range(list)
        PROVE  stack'[i].e = Head(list) /\ Top'.e = stack'[i].e
    <3>1. list # << >>
      BY <2>2 DEF Range
    <3>2. Top'.e = Head(list)
      BY <1>6, <1>8, <3>1 DEF FirstOf
    <3>3. CASE i = n
      BY <1>7, <1>8, <3>2, <3>3
    <3>4. CASE i # n
      <4>1. i < n /\ stack'[i] = stack[i] /\ stack[i].at = "loop"
        BY <1>7, <1>11, <2>1, <3>4
      <4>2. stack[i].e = Head(list)
        BY <1>2, <1>3, <2>2, <4>1 DEF Nested
      <4> QED BY <3>2, <4>1, <4>2
    <3> QED BY <3>3, <3>4
  <2> QED BY <1>1, <1>6, <1>7, <1>8, <1>9, <2>1, <2>2 DEF Nested
<1>13. OneOwner'
  <2>1. CallbackIsTop'
    BY OnlyTopCallsBack, PTL
  <2>2. InCallback' = {}
    BY <1>6, <1>8, <1>10, <1>12, <2>1 DEF CallbackIsTop
  <2> QED BY <1>1, <1>2, <1>4, <1>9, <2>2 DEF OneOwner
<1>14. OneOperation' /\ FlagKept' /\ FreshUntilInit'
  BY <1>1, <1>2, <1>9 DEF OneOperation, FlagKept, FreshUntilInit
<1>15. FewRequests => NoSecondEntry'
  <2> SUFFICES ASSUME FewRequests PROVE NoSecondEntry'
    OBVIOUS
  <2>1. NoSecondEntry
    BY DEF RefusedInv
  <2>2. ASSUME NEW i \in 1..n
        PROVE  /\ i < n => stack'[i].e = NoRequest
               /\ stack'[i].req \notin Range(list)
    <3>1. i < n => stack'[i] = stack[i] /\ stack[i].e = NoRequest
      BY <1>3, <1>7, <2>1 DEF NoSecondEntry, n
    <3>2. stack'[i].req = stack[i].req
      BY <1>3, <1>6, <1>7, <1>11
    <3>3. stack[i].req \notin Range(list)
      BY <1>3, <2>1 DEF NoSecondEntry
    <3> QED BY <3>1, <3>2, <3>3
  <2> QED BY <1>1, <1>6, <1>7, <1>8, <2>1, <2>2 DEF NoSecondEntry
<1> QED BY <1>10, <1>12, <1>13, <1>14, <1>15 DEF RefusedInv, FewRequests

\* The second of a list's entries is the first of its tail.
LEMMA NextOfHead ==
    ASSUME NEW list \in Seq(Request), list # << >>, IsInjective(list)
    PROVE  /\ NextOf(list, Head(list)) = FirstOf(Tail(list))
           /\ Tail(list) # << >> => NextOf(list, Head(list)) \in Range(list) \ {Head(list)}
<1>1. Head(list) = list[1] /\ 1 \in DOMAIN list /\ Len(list) \in Nat /\ Len(list) > 0
  OBVIOUS
<1>2. IndexIn(list, list[1]) = 1
  BY <1>1 DEF IndexIn, IsInjective
<1>3. NextOf(list, Head(list)) = IF Len(list) = 1 THEN NoRequest ELSE list[2]
  <2> DEFINE i == IndexIn(list, Head(list))
  <2>1. i = 1 /\ i + 1 = 2
    BY <1>1, <1>2
  <2>2. NextOf(list, Head(list)) = IF i = Len(list) THEN NoRequest ELSE list[i + 1]
    BY DEF NextOf
  <2> HIDE DEF i
  <2> QED BY <2>1, <2>2
<1>4. Tail(list) = << >> <=> Len(list) = 1
  <2>1. Len(Tail(list)) = Len(list) - 1 /\ Tail(list) \in Seq(Request)
    BY <1>1
  <2>2. Tail(list) = << >> <=> Len(Tail(list)) = 0
    BY <2>1
  <2> QED BY <1>1, <2>1, <2>2
<1>5. Tail(list) # << >> => /\ Head(Tail(list)) = list[2] /\ 2 \in DOMAIN list
  BY <1>1, <1>4
<1>6. 2 \in DOMAIN list => list[2] # list[1]
  BY <1>1 DEF IsInjective
<1> QED BY <1>1, <1>3, <1>4, <1>5, <1>6 DEF FirstOf, Range


\* What the loop takes, if it is on the list: the oldest request, while the
\* platform has nothing; no other call's entry is on the list then.
LEMMA TakesOldest ==
    ASSUME RefusedInv, stack # << >>, Top.at = "loop", Top.e \in Range(ns_nvm_request_list)
    PROVE  /\ outstanding = {} /\ ns_nvm_request_list # << >>
           /\ Top.e = Head(ns_nvm_request_list) /\ Top.e \in Request
           /\ Unlink(ns_nvm_request_list, Top.e) = Tail(ns_nvm_request_list)
           /\ Tail(ns_nvm_request_list) \in Seq(Request)
           /\ Range(Tail(ns_nvm_request_list)) = Range(ns_nvm_request_list) \ {Top.e}
           /\ IsInjective(Tail(ns_nvm_request_list))
           /\ \A i \in DOMAIN stack : stack[i].at = "loop" =>
                  stack[i].e \notin Range(Tail(ns_nvm_request_list))
<1> DEFINE list == ns_nvm_request_list
<1>1. TypeOK /\ Nested /\ list \in Seq(Request) /\ IsInjective(list)
      /\ Range(list) \subseteq Request
  BY RefusedFactsHold DEF RefusedFacts, RefusedInv
<1>2. Len(stack) \in DOMAIN stack /\ Top = stack[Len(stack)]
  BY <1>1, StackParts
<1>3. outstanding = {} /\ Top.e = Head(list)
  BY <1>1, <1>2 DEF Nested
<1>4. list # << >>
  BY DEF Range
<1>5. /\ Unlink(list, Top.e) = Tail(list) /\ Tail(list) \in Seq(Request)
      /\ Range(Tail(list)) = Range(list) \ {Top.e} /\ IsInjective(Tail(list))
  BY <1>1, <1>3, <1>4, UnlinkHead, TailRange
<1>6. ASSUME NEW i \in DOMAIN stack, stack[i].at = "loop" PROVE stack[i].e \notin Range(Tail(list))
  <2>1. stack[i].e \in Range(list) => stack[i].e = Top.e
    BY <1>1, <1>3, <1>6 DEF Nested
  <2> QED BY <1>5, <2>1
<1> QED BY <1>1, <1>3, <1>4, <1>5, <1>6

\* The oldest request goes to the platform: the loop is left.
LEMMA LoopStartsRefused ==
    ASSUME RefusedInv, LoopTakes, Top.e \in Range(ns_nvm_request_list),
           Continue(Top.e, operation[Top.e], outstanding), stack' = Below, UNCHANGED corrupt,
           UNCHANGED order
    PROVE  RefusedInv'
<1> DEFINE n == Len(stack)
           list == ns_nvm_request_list
           r == Top.e
           op == operation[r]
<1>1. /\ stack # << >> /\ Top.at = "loop" /\ list' = Unlink(list, r)
      /\ UNCHANGED <<ns_nvm_initialized, alive, answer, asked>>
  BY DEF LoopTakes
<1>2. /\ outstanding = {} /\ r \in Request /\ list' = Tail(list) /\ Tail(list) \in Seq(Request)
      /\ Range(list') = Range(list) \ {r} /\ IsInjective(list')
      /\ \A i \in DOMAIN stack : stack[i].at = "loop" => stack[i].e \notin Range(list')
  BY <1>1, TakesOldest
<1>3. /\ TypeOK /\ OneOwner /\ Nested /\ FreshUntilInit
      /\ operation \in [Request -> OperationType] /\ InCallback = {}
  BY <1>1, RefusedFactsHold DEF RefusedFacts, RefusedInv
<1>4. /\ n \in Nat /\ n >= 1 /\ DOMAIN stack = 1..n
      /\ stack' \in Seq(Frame) /\ Len(stack') = n - 1 /\ DOMAIN stack' = 1..(n - 1)
      /\ \A i \in 1..(n - 1) : stack'[i] = stack[i]
  BY <1>1, <1>3, StackParts
<1>5. FirstCall(op) \in PlatformOp /\ FirstOperation(op) \in OperationType
  BY <1>2, <1>3, AnyCallType
<1>6. /\ ns_nvm_operation_in_progress' = TRUE /\ done' = << >>
      /\ operation' = [operation EXCEPT ![r] = FirstOperation(op)]
      /\ outstanding' = {[op |-> FirstCall(op), req |-> r]}
  BY <1>2 DEF Continue
<1> HIDE DEF n, r, op
<1>7. \A i \in 1..(n - 1) : i \in 1..n /\ i < n
  BY <1>4
<1>8. \A i \in DOMAIN stack' : stack'[i].at = "loop" /\ stack'[i].e \notin Range(list')
  BY <1>2, <1>3, <1>4, <1>7 DEF Nested, n
<1>9. stack' # << >> => Len(stack') \in DOMAIN stack' /\ Top' = stack'[Len(stack')]
  BY <1>4 DEF Top
<1>10. TypeOK'
  <2>1. operation' \in [Request -> OperationType] /\ outstanding' \subseteq PlatformCall
    BY <1>2, <1>3, <1>5, <1>6 DEF PlatformCall
  <2>2. done' \in Seq(PlatformCall)
    BY <1>6
  <2> QED BY <1>1, <1>2, <1>3, <1>4, <1>6, <2>1, <2>2 DEF TypeOK, OperationType
<1>11. Nested'
  BY <1>8, <1>9 DEF Nested
<1>12. OneOwner'
  <2>1. CallbackIsTop'
    BY OnlyTopCallsBack, PTL
  <2>2. InCallback' = {}
    BY <1>8, <1>9, <1>10, <1>11, <2>1 DEF CallbackIsTop
  <2>3. {c.req : c \in outstanding} = {} /\ {c.req : c \in outstanding'} = {r}
    BY <1>2, <1>6
  <2>4. r \in Range(list)
    BY DEF r
  <2> QED BY <1>1, <1>2, <1>3, <2>2, <2>3, <2>4 DEF OneOwner
<1>13. OneOperation' /\ FlagKept' /\ FreshUntilInit'
  <2>1. ns_nvm_initialized'
    BY <1>1, <1>3 DEF FreshUntilInit
  <2> QED BY <1>6, <2>1 DEF OneOperation, FlagKept, FreshUntilInit
<1>14. FewRequests => NoSecondEntry'
  <2> SUFFICES ASSUME FewRequests PROVE NoSecondEntry'
    OBVIOUS
  <2>1. NoSecondEntry
    BY DEF RefusedInv
  <2>2. \A i \in DOMAIN stack' : /\ stack'[i].e = NoRequest
                                 /\ stack'[i].req \notin Range(list')
    BY <1>2, <1>4, <1>7, <2>1 DEF NoSecondEntry, n
  <2> QED BY <1>9, <2>1, <2>2 DEF NoSecondEntry
<1> QED BY <1>10, <1>11, <1>12, <1>13, <1>14 DEF RefusedInv, FewRequests

\* The oldest request is refused: it is ended by a call on top of this one.
LEMMA LoopNestsRefused ==
    ASSUME RefusedInv, LoopTakes, Top.e \in Range(ns_nvm_request_list),
           ContinueFails(Top.e, operation[Top.e], outstanding), UNCHANGED corrupt,
           CallBack(Append(Below, [Top EXCEPT !.e = NextOf(ns_nvm_request_list, Top.e)]),
                    Top.e, "NS_NVM_ERROR")
    PROVE  RefusedInv'
<1> DEFINE n == Len(stack)
           list == ns_nvm_request_list
           r == Top.e
           op == operation[r]
           g == [Top EXCEPT !.e = NextOf(list, r)]
           f == [req |-> r, ret |-> "NS_NVM_ERROR", at |-> "callback", e |-> NoRequest]
<1>1. /\ stack # << >> /\ Top.at = "loop" /\ list' = Unlink(list, r)
      /\ UNCHANGED <<ns_nvm_initialized, alive, answer, asked>>
  BY DEF LoopTakes
<1>2. /\ outstanding = {} /\ list # << >> /\ r = Head(list)
      /\ r \in Request /\ list' = Tail(list) /\ Tail(list) \in Seq(Request)
      /\ Range(list') = Range(list) \ {r} /\ IsInjective(list')
      /\ \A i \in DOMAIN stack : stack[i].at = "loop" => stack[i].e \notin Range(list')
  BY <1>1, TakesOldest
<1>3. /\ TypeOK /\ OneOwner /\ Nested /\ FreshUntilInit
      /\ list \in Seq(Request) /\ IsInjective(list) /\ Range(list) \subseteq Request
      /\ operation \in [Request -> OperationType] /\ InCallback = {}
  BY <1>1, RefusedFactsHold DEF RefusedFacts, RefusedInv
<1>4. /\ n \in Nat /\ n >= 1 /\ DOMAIN stack = 1..n /\ Top = stack[n] /\ Top \in Frame
      /\ Below \in Seq(Frame) /\ Len(Below) = n - 1
      /\ DOMAIN Below = 1..(n - 1) /\ \A i \in DOMAIN Below : Below[i] = stack[i]
  BY <1>1, <1>3, StackParts
<1>5. FirstOperation(op) \in OperationType
  BY <1>2, <1>3, AnyCallType
<1>6. /\ ns_nvm_operation_in_progress' = FALSE /\ outstanding' = {} /\ done' = done
      /\ operation' = [operation EXCEPT ![r] = FirstOperation(op)]
      /\ stack' = Append(Append(Below, g), f) /\ order' = Unlink(order, r)
  BY <1>2 DEF ContinueFails, CallBack
<1>7. /\ NextOf(list, r) = FirstOf(Tail(list))
      /\ Tail(list) # << >> => NextOf(list, r) \in Range(list) \ {r}
  BY <1>2, <1>3, NextOfHead
<1>8. NextOf(list, r) \in Request \cup {NoRequest}
  BY <1>3, <1>7 DEF FirstOf
<1>9. g \in Frame /\ g.at = "loop" /\ g.e = NextOf(list, r) /\ g.req = Top.req
  BY <1>1, <1>4, <1>8 DEF Frame
<1>10. f \in Frame /\ f.at = "callback" /\ f.req = r /\ f.e = NoRequest
  BY <1>2 DEF Frame, ReturnCode
<1> HIDE DEF n, g, f, r, op
<1>11. /\ stack' \in Seq(Frame) /\ stack' # << >> /\ Len(stack') = n + 1
       /\ DOMAIN stack' = 1..(n + 1) /\ stack'[n + 1] = f /\ stack'[n] = g
       /\ \A i \in 1..n : i < n => stack'[i] = stack[i]
  <2> DEFINE s == Append(Below, g)
  <2>1. (n - 1) + 1 = n /\ n \in 1..n /\ \A i \in 1..n : i < n => i \in 1..(n - 1)
    BY <1>4
  <2>2. /\ s \in Seq(Frame) /\ Len(s) = n /\ s[n] = g
        /\ \A i \in 1..(n - 1) : s[i] = Below[i]
    BY <1>4, <1>9, <2>1, Pushed
  <2> HIDE DEF s
  <2>3. /\ Append(s, f) \in Seq(Frame) /\ Append(s, f) # << >> /\ Len(Append(s, f)) = n + 1
        /\ DOMAIN Append(s, f) = 1..(n + 1) /\ Append(s, f)[n + 1] = f
        /\ \A i \in 1..n : Append(s, f)[i] = s[i]
    BY <1>10, <2>2, Pushed
  <2> QED BY <1>4, <1>6, <2>1, <2>2, <2>3 DEF s
<1>12. Top' = f
  BY <1>11 DEF Top
<1>13. \A i \in 1..(n + 1) : i = n + 1 \/ i = n \/ (i \in 1..n /\ i < n)
  BY <1>4
<1>14. TypeOK'
  <2>1. operation' \in [Request -> OperationType]
    BY <1>3, <1>5, <1>6
  <2>2. order' \in Seq(Request)
    <3>1. order \in Seq(Request)
      BY <1>3 DEF TypeOK
    <3> QED BY <1>6, <3>1, UnlinkType
  <2> QED BY <1>1, <1>2, <1>3, <1>6, <1>11, <2>1, <2>2 DEF TypeOK, OperationType
<1>15. Nested'
  <2>1. \A i \in 1..(n + 1) : i < n + 1 => stack'[i].at = "loop"
    <3>1. \A i \in 1..n : i < n => stack'[i].at = "loop"
      BY <1>3, <1>4, <1>11 DEF Nested, n
    <3>2. ~(n + 1 < n + 1)
      BY <1>4
    <3> QED BY <1>9, <1>11, <1>13, <3>1, <3>2
  <2>2. ASSUME NEW i \in 1..(n + 1), stack'[i].at = "loop", stack'[i].e \in Range(list')
        PROVE  stack'[i].e = Head(list')
    <3>1. i # n + 1
      BY <1>10, <1>11, <2>2
    <3>2. ~(i \in 1..n /\ i < n)
      BY <1>2, <1>3, <1>4, <1>11, <2>2 DEF Nested, n
    <3>3. stack'[i].e = FirstOf(list') /\ list' # << >>
      BY <1>2, <1>7, <1>9, <1>11, <1>13, <2>2, <3>1, <3>2 DEF Range
    <3> QED BY <3>3 DEF FirstOf
  <2> QED BY <1>6, <1>10, <1>11, <1>12, <2>1, <2>2 DEF Nested
<1>16. OneOwner'
  <2>1. CallbackIsTop'
    BY OnlyTopCallsBack, PTL
  <2>2. InCallback' = {r}
    BY <1>10, <1>11, <1>12, <1>14, <1>15, <2>1 DEF CallbackIsTop
  <2>3. {c.req : c \in outstanding} = {} /\ {c.req : c \in outstanding'} = {}
    BY <1>2, <1>6
  <2>4. r \in Range(list)
    BY DEF r
  <2> QED BY <1>1, <1>2, <1>3, <2>2, <2>3, <2>4 DEF OneOwner
<1>17. OneOperation' /\ FlagKept' /\ FreshUntilInit'
  <2>1. ns_nvm_initialized'
    BY <1>1, <1>3 DEF FreshUntilInit
  <2> QED BY <1>6, <1>10, <1>11, <1>12, <2>1 DEF OneOperation, FlagKept, FreshUntilInit
<1>18. FewRequests => NoSecondEntry'
  <2> SUFFICES ASSUME FewRequests PROVE NoSecondEntry'
    OBVIOUS
  <2>1. NoSecondEntry
    BY DEF RefusedInv
  <2>2. Top.req \notin Range(list) /\ Top.req \in Request
    <3>1. n \in DOMAIN stack
      BY <1>4
    <3> QED BY <1>4, <2>1, <3>1 DEF NoSecondEntry, Frame
  <2>3. g.e = NoRequest
    <3>1. Tail(list) = << >>
      <4> SUFFICES ASSUME Tail(list) # << >> PROVE FALSE
        OBVIOUS
      <4>1. NextOf(list, r) \in Range(list) \ {r} /\ r \in Range(list)
        BY <1>7 DEF r
      <4>2. NextOf(list, r) \in Request /\ r \in Request
        BY <1>2, <1>3, <4>1
      <4> QED BY <2>2, <4>1, <4>2 DEF FewRequests
    <3> QED BY <1>7, <1>9, <3>1 DEF FirstOf
  <2>4. ASSUME NEW i \in 1..(n + 1)
        PROVE  /\ i < n + 1 => stack'[i].e = NoRequest
               /\ stack'[i].req \notin Range(list')
    <3>1. CASE i = n + 1
      BY <1>2, <1>10, <1>11, <3>1
    <3>2. CASE i = n
      BY <1>2, <1>9, <1>11, <2>2, <2>3, <3>2
    <3>3. CASE i \in 1..n /\ i < n
      BY <1>2, <1>4, <1>11, <2>1, <3>3 DEF NoSecondEntry, n
    <3> QED BY <1>13, <3>1, <3>2, <3>3
  <2> QED BY <1>10, <1>11, <1>12, <2>1, <2>4 DEF NoSecondEntry
<1> QED BY <1>14, <1>15, <1>16, <1>17, <1>18 DEF RefusedInv, FewRequests

\* An entry that left the list: with two requests there is none.
LEMMA LoopStaleRefused ==
    ASSUME RefusedInv, LoopTakes, Top.e \notin Range(ns_nvm_request_list)
    PROVE  RefusedInv'
<1>1. /\ stack # << >> /\ Top.at = "loop" /\ Top.e # NoRequest /\ corrupt' = TRUE
      /\ UNCHANGED <<flags, operation, done, ns_nvm_request_list, outstanding, stack, order,
                     alive, answer, asked>>
  BY DEF LoopTakes, flags
<1>2. ~FewRequests
  <2> SUFFICES ASSUME FewRequests PROVE FALSE
    OBVIOUS
  <2>1. Top.e = FirstOf(ns_nvm_request_list)
    BY <1>1 DEF RefusedInv, NoSecondEntry
  <2>2. ns_nvm_request_list \in Seq(Request) /\ ns_nvm_request_list # << >>
        /\ Top.e = Head(ns_nvm_request_list)
    BY <1>1, <2>1, RefusedFactsHold DEF FirstOf, RefusedFacts
  <2>3. 1 \in DOMAIN ns_nvm_request_list /\ Top.e = ns_nvm_request_list[1]
    BY <2>2
  <2> QED BY <2>3 DEF Range
<1>3. TypeOK'
  BY <1>1 DEF RefusedInv, TypeOK, flags
<1>4. OneOwner' /\ Nested'
  BY <1>1 DEF RefusedInv, OneOwner, InCallback, Nested, Top
<1> QED
  BY <1>1, <1>2, <1>3, <1>4 DEF RefusedInv, OneOperation, FlagKept, FreshUntilInit,
     FewRequests, Top, flags

\* The loop ends: no call below has an entry that is on the list.
LEMMA LoopEndsRefused ==
    ASSUME RefusedInv, LoopEnds
    PROVE  RefusedInv'
<1> DEFINE n == Len(stack)
           list == ns_nvm_request_list
<1>1. /\ stack # << >> /\ Top.at = "loop" /\ Top.e = NoRequest /\ stack' = Below
      /\ UNCHANGED <<ns_nvm_initialized, ns_nvm_operation_in_progress, ns_nvm_request_list,
                     operation, alive, outstanding, corrupt, answer, order, asked, done>>
  BY DEF LoopEnds, flags
<1>2. /\ TypeOK /\ OneOwner /\ Nested /\ OneOperation /\ FreshUntilInit /\ FlagKept
      /\ InCallback = {} /\ NoRequest \notin Range(list)
  BY <1>1, RefusedFactsHold DEF RefusedFacts, RefusedInv
<1>3. /\ n \in Nat /\ n >= 1 /\ DOMAIN stack = 1..n
      /\ stack' \in Seq(Frame) /\ Len(stack') = n - 1 /\ DOMAIN stack' = 1..(n - 1)
      /\ \A i \in 1..(n - 1) : stack'[i] = stack[i]
  BY <1>1, <1>2, StackParts
<1> HIDE DEF n
<1>4. \A i \in 1..(n - 1) : i \in 1..n /\ i < n
  BY <1>3
<1>5. \A i \in DOMAIN stack' : stack'[i].at = "loop" /\ stack'[i].e \notin Range(list')
  BY <1>1, <1>2, <1>3, <1>4 DEF Nested, n
<1>6. stack' # << >> => Len(stack') \in DOMAIN stack' /\ Top' = stack'[Len(stack')]
  BY <1>3 DEF Top
<1>7. TypeOK'
  BY <1>1, <1>2, <1>3 DEF TypeOK
<1>8. Nested'
  BY <1>5, <1>6 DEF Nested
<1>9. OneOwner'
  <2>1. CallbackIsTop'
    BY OnlyTopCallsBack, PTL
  <2>2. InCallback' = {}
    BY <1>5, <1>6, <1>7, <1>8, <2>1 DEF CallbackIsTop
  <2> QED BY <1>1, <1>2, <2>2 DEF OneOwner
<1>10. OneOperation' /\ FlagKept' /\ FreshUntilInit'
  BY <1>1, <1>2 DEF OneOperation, FlagKept, FreshUntilInit
<1>11. FewRequests => NoSecondEntry'
  <2> SUFFICES ASSUME FewRequests PROVE NoSecondEntry'
    OBVIOUS
  <2>1. NoSecondEntry
    BY DEF RefusedInv
  <2>2. \A i \in DOMAIN stack' : /\ stack'[i].e = NoRequest
                                 /\ stack'[i].req \notin Range(list')
    BY <1>1, <1>3, <1>4, <2>1 DEF NoSecondEntry, n
  <2> QED BY <1>1, <1>6, <2>1, <2>2 DEF NoSecondEntry
<1> QED BY <1>7, <1>8, <1>9, <1>10, <1>11 DEF RefusedInv, FewRequests

\* Every step keeps the invariant.
LEMMA NextRefusedInv ==
    ASSUME ~Reentrant, ChainsGoOn, RefusedInv, [Next]_vars
    PROVE  RefusedInv'
<1>1. CASE Client
  BY <1>1, ApiStartRefused, ApiEnqueueRefused, ApiInitRefused, RefusedCalls
  DEF Client, ns_nvm_operation_start
<1>2. CASE Platform
  BY <1>2, InitCompletesRefused, StepCompletesRefused, RequestCompletesRefused
  DEF Platform, ns_nvm_callback_func
<1>3. CASE LoopTakes
  <2>1. CASE Top.e \notin Range(ns_nvm_request_list)
    BY <1>3, <2>1, LoopStaleRefused
  <2>2. CASE Top.e \in Range(ns_nvm_request_list)
    BY <1>3, <2>2, LoopStartsRefused, LoopNestsRefused DEF LoopTakes
  <2> QED BY <2>1, <2>2
<1>4. CASE UNCHANGED vars
  <2>1. TypeOK'
    BY <1>4 DEF RefusedInv, TypeOK, vars, flags
  <2>2. OneOwner' /\ Nested'
    BY <1>4 DEF RefusedInv, OneOwner, InCallback, Nested, Top, vars, flags
  <2> QED BY <1>4, <2>1, <2>2 DEF RefusedInv, OneOperation, FlagKept, FreshUntilInit,
     FewRequests, NoSecondEntry, Top, vars, flags
<1> QED BY <1>1, <1>2, <1>3, <1>4, CallbackReturnsRefused, LoopEndsRefused DEF Next, Return

\* A platform that refuses the first call of any request, and so makes
\* ns_nvm_operation_end call itself to any depth: as long as clients do not
\* call the API from their callbacks, RefusedInv holds always, for every
\* number of requests.
THEOREM RefusedInvariance == ~Reentrant /\ ChainsGoOn => (Spec => []RefusedInv)
<1> SUFFICES ASSUME ~Reentrant, ChainsGoOn PROVE Spec => []RefusedInv
  OBVIOUS
<1>1. RefusedInv /\ [Next]_vars => RefusedInv'
  BY NextRefusedInv
<1> QED BY <1>1, InitRefusedInv, PTL DEF Spec

\* However deep ns_nvm_operation_end recurses, the platform never gets a second
\* operation, every allocated request has one owner, and the flag is exact, up
\* to the step in which a loop takes an entry that is no longer on the list.
THEOREM RecursionKeepsOwners ==
    ~Reentrant /\ ChainsGoOn => (Spec => [](OneOperation /\ OneOwner /\ FlagExact))
<1>1. RefusedInv => OneOperation /\ OneOwner /\ FlagExact
  BY DEF RefusedInv, FlagKept, FlagExact
<1> QED BY <1>1, RefusedInvariance, PTL

\* The entry that ns_list_foreach_safe saved is stale only when a third
\* request waits: with two the loop removes only entries on the list.
THEOREM StaleNeedsThree ==
    ~Reentrant /\ ChainsGoOn /\ FewRequests => (Spec => []RemovesListed)
<1> SUFFICES ASSUME ~Reentrant, ChainsGoOn, FewRequests PROVE Spec => []RemovesListed
  OBVIOUS
<1>1. RefusedInv => RemovesListed
  BY DEF RefusedInv, NoSecondEntry, RemovesListed
<1> QED BY <1>1, RefusedInvariance, PTL
=============================================================================
