-------------------------- MODULE KotakStreamProofs --------------------------
(***************************************************************************)
(* Theorems about KotakStream for any number of workers, symbols, attempts *)
(* and calls, however the client, the workers and the network interleave.  *)
(***************************************************************************)
EXTENDS KotakStream, TLAPS

Streaming == {"stream", "callback", "wanting", "joining", "leaving"}

(* The worker will not connect again. *)
Leaves(w) == pc[w] \in {"ending", "exiting", "dead"} \/ (pc[w] = "finally" /\ last[w])

FailuresFit == \A w \in Workers : failures[w] > MaxAttempts => Leaves(w)

(* A worker that no disconnect gave up is the adapter's thread, and while  *)
(* it is the only one the adapter's loop and socket are its own.           *)
OneThread == \A w \in Workers \ orphans : Alive(w) => w = thread

Owns ==
  orphans = {} =>
    \A w \in Workers :
      /\ Alive(w) /\ pc[w] \notin {"born", "exiting"} => loop = w
      /\ pc[w] \in Streaming \cup {"connect"} => ws = w

(* Some call for the symbol has still to be carried out on w's loop. *)
Asked(w, s) ==
  \E list \in Lists :
    s \in list /\ (<<w, list>> \in requests \/ client = <<"subscribing", list>>)

Awaited(w, s) == s \in served[w] \cup spoiled \/ Asked(w, s)

ServesAll ==
  orphans = {} =>
    \A w \in Workers : pc[w] \in Streaming /\ open[w] =>
      \A s \in subs \cap Good : Awaited(w, s)

(* From the stop event on nobody is told of a connection or left waiting.  *)
StopFits ==
  /\ stop => ready
  /\ lock # None => stop
  /\ stop /\ lock = None => status # "LIVE_CONNECTED"

(* Who has heard a tick will still say so when the socket is lost. *)
HeardFits ==
  status = "LIVE_CONNECTED" /\ lock = None =>
    \E w \in Workers :
      heard[w] /\ pc[w] \in Streaming \cup {"check", "finally"} /\ ~Leaves(w)

LeavingFits == thread # None /\ Leaves(thread) => ready

(* TypeOK in three parts, for the provers. *)
Flags ==
  /\ authed \in BOOLEAN /\ listening \in BOOLEAN /\ stop \in BOOLEAN /\ ready \in BOOLEAN
  /\ last \in [Workers -> BOOLEAN] /\ open \in [Workers -> BOOLEAN]
  /\ heard \in [Workers -> BOOLEAN]

Places ==
  /\ status \in {"LIVE_CONNECTING", "LIVE_CONNECTED", "LIVE_FAILED"}
  /\ subs \subseteq Symbols
  /\ {ws, loop, thread} \subseteq Workers \cup {None} /\ lock \in Actors \cup {None}
  /\ pc \in [Workers -> PC] /\ failures \in [Workers -> 0 .. MaxAttempts + 1]
  /\ served \in [Workers -> SUBSET Symbols]
  /\ client \in ({"idle", "waiting", "joining"} \X {None}) \cup ({"subscribing"} \X Lists)
  /\ calls \in 0 .. MaxCalls

Sets == /\ requests \subseteq Workers \X Lists /\ spoiled \subseteq Symbols
        /\ orphans \subseteq Workers

IInv == /\ TypeOK /\ FailuresFit /\ OneThread /\ Owns /\ ServesAll
        /\ StopFits /\ HeardFits /\ LeavingFits

LEMMA AuthenticatePreserves ==
  ASSUME IInv, Authenticate
  PROVE  IInv'
<1>1. TypeOK'
  <2>1. Flags'
    BY Zenon DEF Authenticate, OfWorkers, IInv, TypeOK, Flags
  <2>2. Places'
    BY StreamAssumption, SMT DEF Authenticate, Call, OfWorkers, IInv, TypeOK, Places
  <2>3. Sets'
    BY SMT DEF Authenticate, OfWorkers, IInv, TypeOK, Sets
  <2> QED BY <2>1, <2>2, <2>3 DEF Flags, Places, Sets, TypeOK
<1>2. FailuresFit'
  BY SMT DEF Authenticate, OfWorkers, IInv, FailuresFit, Leaves
<1>3. OneThread' /\ Owns' /\ ServesAll'
  BY SMT DEF Authenticate, OfWorkers, IInv, OneThread, Owns, ServesAll, Awaited, Asked, Alive
<1>4. StopFits' /\ HeardFits' /\ LeavingFits'
  BY SMT DEF Authenticate, OfWorkers, IInv, StopFits, HeardFits, LeavingFits, Leaves
<1> QED BY <1>1, <1>2, <1>3, <1>4 DEF IInv

LEMMA SubscribePreserves ==
  ASSUME IInv, NEW list \in Lists, Subscribe(list)
  PROVE  IInv'
<1>1. TypeOK'
  BY StreamAssumption, SMT DEF Subscribe, Call, OfWorkers, IInv, TypeOK
<1>2. FailuresFit'
  BY SMT DEF Subscribe, OfWorkers, IInv, FailuresFit, Leaves
<1>3. OneThread' /\ Owns' /\ ServesAll'
  BY SMT DEF Subscribe, Call, OfWorkers, IInv, OneThread, Owns, ServesAll, Awaited, Asked, Alive
<1>4. StopFits' /\ HeardFits' /\ LeavingFits'
  BY SMT DEF Subscribe, OfWorkers, IInv, StopFits, HeardFits, LeavingFits, Leaves
<1> QED BY <1>1, <1>2, <1>3, <1>4 DEF IInv

LEMMA StartStreamPreserves ==
  ASSUME IInv, NEW w \in Workers, StartStream(w)
  PROVE  IInv'
<1>1. TypeOK'
  <2>1. Flags'
    BY Zenon DEF StartStream, IInv, TypeOK, Flags
  <2>2. Places'
    BY SMT DEF StartStream, IInv, TypeOK, PC, Places
  <2>3. Sets'
    BY SMT DEF StartStream, IInv, TypeOK, Sets
  <2> QED BY <2>1, <2>2, <2>3 DEF Flags, Places, Sets, TypeOK
<1>2. FailuresFit'
  BY SMT DEF StartStream, IInv, FailuresFit, Leaves
<1>3. OneThread' /\ Owns' /\ ServesAll'
  BY StreamAssumption, SMT DEF StartStream, NeedsThread, IInv, OneThread, Owns, ServesAll,
     Alive, Streaming, None
<1>4. StopFits' /\ HeardFits' /\ LeavingFits'
  BY SMT DEF StartStream, StopFits, HeardFits, LeavingFits, Leaves
<1> QED BY <1>1, <1>2, <1>3, <1>4 DEF IInv

LEMMA AskRunningPreserves ==
  ASSUME IInv, AskRunning
  PROVE  IInv'
<1>1. TypeOK'
  <2>1. Flags'
    BY Zenon DEF AskRunning, Shared, IInv, TypeOK, Flags
  <2>2. Places'
    BY SMT DEF AskRunning, Shared, IInv, TypeOK, Places
  <2>3. Sets'
    BY SMT DEF AskRunning, IInv, TypeOK, Sets
  <2> QED BY <2>1, <2>2, <2>3 DEF Flags, Places, Sets, TypeOK
<1>2. FailuresFit'
  BY SMT DEF AskRunning, IInv, FailuresFit, Leaves
<1>3. OneThread' /\ Owns' /\ ServesAll'
  <2>1. OneThread' /\ Owns'
    BY SMT DEF AskRunning, Shared, IInv, OneThread, Owns, Alive
  <2>2. ASSUME orphans = {}, NEW v \in Workers, pc[v] \in Streaming, open[v],
               NEW s \in subs \cap Good
        PROVE  Awaited(v, s)'
    <3>1. Awaited(v, s) /\ loop = v /\ v # None
      BY <2>2, StreamAssumption, SMT DEF IInv, ServesAll, Owns, Alive, Streaming, None
    <3>2. requests' = requests \cup {<<v, client[2]>>} /\ client[1] = "subscribing"
      BY <3>1 DEF AskRunning
    <3>3. /\ client \in ({"idle", "waiting", "joining"} \X {None}) \cup ({"subscribing"} \X Lists)
          /\ served' = served /\ spoiled' = spoiled
      BY DEF IInv, TypeOK, AskRunning
    <3> QED BY <3>1, <3>2, <3>3, SMT DEF Awaited, Asked
  <2>3. ServesAll'
    BY <2>2, Zenon DEF AskRunning, Shared, ServesAll
  <2> QED BY <2>1, <2>3
<1>4. StopFits' /\ HeardFits' /\ LeavingFits'
  BY SMT DEF AskRunning, Shared, IInv, StopFits, HeardFits, LeavingFits, Leaves
<1> QED BY <1>1, <1>2, <1>3, <1>4 DEF IInv

LEMMA UnsubscribePreserves ==
  ASSUME IInv, NEW s \in Symbols, Unsubscribe(s)
  PROVE  IInv'
<1>1. TypeOK'
  BY StreamAssumption, SMT DEF Unsubscribe, Call, OfWorkers, IInv, TypeOK
<1>2. FailuresFit'
  BY SMT DEF Unsubscribe, OfWorkers, IInv, FailuresFit, Leaves
<1>3. OneThread' /\ Owns' /\ ServesAll'
  BY SMT DEF Unsubscribe, OfWorkers, IInv, OneThread, Owns, ServesAll, Awaited, Asked, Alive
<1>4. StopFits' /\ HeardFits' /\ LeavingFits'
  BY SMT DEF Unsubscribe, OfWorkers, IInv, StopFits, HeardFits, LeavingFits, Leaves
<1> QED BY <1>1, <1>2, <1>3, <1>4 DEF IInv

LEMMA WaitUntilReadyPreserves ==
  ASSUME IInv, WaitUntilReady
  PROVE  IInv'
<1>1. TypeOK'
  BY StreamAssumption, SMT DEF WaitUntilReady, Call, Shared, OfWorkers, IInv, TypeOK
<1>2. FailuresFit'
  BY SMT DEF WaitUntilReady, OfWorkers, IInv, FailuresFit, Leaves
<1>3. OneThread' /\ Owns' /\ ServesAll'
  BY SMT DEF WaitUntilReady, Call, Shared, OfWorkers, IInv, OneThread, Owns, ServesAll,
     Awaited, Asked, Alive
<1>4. StopFits' /\ HeardFits' /\ LeavingFits'
  BY SMT DEF WaitUntilReady, Shared, OfWorkers, IInv, StopFits, HeardFits, LeavingFits,
     Leaves
<1> QED BY <1>1, <1>2, <1>3, <1>4 DEF IInv

LEMMA AwakePreserves ==
  ASSUME IInv, Awake
  PROVE  IInv'
<1>1. TypeOK'
  BY SMT DEF Awake, Shared, OfWorkers, IInv, TypeOK
<1>2. FailuresFit'
  BY SMT DEF Awake, OfWorkers, IInv, FailuresFit, Leaves
<1>3. OneThread' /\ Owns' /\ ServesAll'
  BY SMT DEF Awake, Shared, OfWorkers, IInv, OneThread, Owns, ServesAll, Awaited, Asked, Alive
<1>4. StopFits' /\ HeardFits' /\ LeavingFits'
  BY SMT DEF Awake, Shared, OfWorkers, IInv, StopFits, HeardFits, LeavingFits, Leaves
<1> QED BY <1>1, <1>2, <1>3, <1>4 DEF IInv

LEMMA TimeOutPreserves ==
  ASSUME IInv, TimeOut
  PROVE  IInv'
<1>1. TypeOK'
  BY SMT DEF TimeOut, OfWorkers, IInv, TypeOK
<1>2. FailuresFit'
  BY SMT DEF TimeOut, OfWorkers, IInv, FailuresFit, Leaves
<1>3. OneThread' /\ Owns' /\ ServesAll'
  BY SMT DEF TimeOut, OfWorkers, IInv, OneThread, Owns, ServesAll, Awaited, Asked, Alive
<1>4. StopFits' /\ HeardFits' /\ LeavingFits'
  BY SMT DEF TimeOut, OfWorkers, IInv, StopFits, HeardFits, LeavingFits, Leaves
<1> QED BY <1>1, <1>2, <1>3, <1>4 DEF IInv

LEMMA DisconnectPreserves ==
  ASSUME IInv, NEW a \in Actors, Disconnect(a)
  PROVE  IInv'
<1>1. TypeOK'
  <2>1. Flags'
    BY Zenon DEF Disconnect, Disconnected, IInv, TypeOK, Flags
  <2>2. Places'
    BY StreamAssumption, SMT DEF Disconnect, Disconnected, Caller, Call, IInv, TypeOK, PC,
       Places
  <2>3. Sets'
    <3>1. Alive(thread) => thread \in Workers
      BY SMT DEF IInv, TypeOK, Alive
    <3>2. /\ requests' = requests /\ spoiled' = spoiled
          /\ orphans' \in {orphans, orphans \cup IF Alive(thread) THEN {thread} ELSE {}}
      BY Zenon DEF Disconnect, Disconnected
    <3> QED BY <3>1, <3>2, SMT DEF IInv, TypeOK, Sets
  <2> QED BY <2>1, <2>2, <2>3 DEF Flags, Places, Sets, TypeOK
<1>2. FailuresFit'
  BY SMT DEF Disconnect, Caller, IInv, TypeOK, FailuresFit, Leaves
<1>3. OneThread' /\ Owns' /\ ServesAll'
  <2>1. OneThread' /\ Owns'
    BY SMT DEF Disconnect, Disconnected, Caller, IInv, TypeOK, OneThread, Owns, Alive,
       Streaming
  <2>2. ASSUME orphans' = {}, NEW v \in Workers, pc'[v] \in Streaming, open'[v],
               NEW s \in subs' \cap Good
        PROVE  Awaited(v, s)'
    <3>1. /\ orphans = {} /\ subs' = subs
          /\ served' = served /\ spoiled' = spoiled /\ requests' = requests
      BY <2>2, Zenon DEF Disconnect, Disconnected
    <3>2. pc[v] \in Streaming /\ open[v]
      BY <2>2, SMT DEF Disconnect, Caller, IInv, TypeOK, Streaming
    <3>3. client[1] = "subscribing" => client' = client
      BY SMT DEF Disconnect, Caller, Call
    <3>4. Awaited(v, s)
      BY <2>2, <3>1, <3>2 DEF IInv, ServesAll
    <3> QED BY <3>1, <3>3, <3>4, SMT DEF Awaited, Asked
  <2>3. ServesAll'
    BY <2>2 DEF ServesAll
  <2> QED BY <2>1, <2>3
<1>4. StopFits' /\ HeardFits' /\ LeavingFits'
  BY StreamAssumption, SMT DEF Disconnect, Disconnected, Actors, StopFits, HeardFits,
     LeavingFits, None
<1> QED BY <1>1, <1>2, <1>3, <1>4 DEF IInv

LEMMA JoinedPreserves ==
  ASSUME IInv, NEW a \in Actors, Joined(a)
  PROVE  IInv'
<1>1. TypeOK'
  <2>1. Flags'
    BY Zenon DEF Joined, Disconnected, IInv, TypeOK, Flags
  <2>2. Places'
    BY SMT DEF Joined, Disconnected, Caller, IInv, TypeOK, PC, Places
  <2>3. Sets'
    BY SMT DEF Joined, Disconnected, IInv, TypeOK, Sets, Alive
  <2> QED BY <2>1, <2>2, <2>3 DEF Flags, Places, Sets, TypeOK
<1>2. FailuresFit'
  BY SMT DEF Joined, Caller, IInv, TypeOK, FailuresFit, Leaves
<1>3. OneThread' /\ Owns' /\ ServesAll'
  BY SMT DEF Joined, Disconnected, Caller, IInv, TypeOK, OneThread, Owns, ServesAll, Alive,
     Streaming
<1>4. StopFits' /\ HeardFits' /\ LeavingFits'
  BY SMT DEF Joined, Disconnected, Caller, IInv, TypeOK, StopFits, HeardFits, LeavingFits,
     Leaves
<1> QED BY <1>1, <1>2, <1>3, <1>4 DEF IInv

LEMMA BeginPreserves ==
  ASSUME IInv, NEW w \in Workers, Begin(w)
  PROVE  IInv'
<1>1. TypeOK'
  BY SMT DEF Begin, IInv, TypeOK, PC
<1>2. FailuresFit'
  BY SMT DEF Begin, IInv, FailuresFit, Leaves
<1>3. OneThread' /\ Owns' /\ ServesAll'
  BY StreamAssumption, SMT DEF Begin, IInv, OneThread, Owns, ServesAll, Alive, Streaming,
     None
<1>4. StopFits' /\ HeardFits' /\ LeavingFits'
  BY SMT DEF Begin, IInv, StopFits, HeardFits, LeavingFits, Leaves
<1> QED BY <1>1, <1>2, <1>3, <1>4 DEF IInv

LEMMA CheckPreserves ==
  ASSUME IInv, NEW w \in Workers, Check(w)
  PROVE  IInv'
<1>1. TypeOK'
  <2>1. Flags'
    BY Zenon DEF Check, Fail, IInv, TypeOK, Flags
  <2>2. Places'
    BY StreamAssumption, SMT DEF Check, Fail, FailuresNow, IInv, TypeOK, FailuresFit,
       Leaves, PC, Places
  <2>3. Sets'
    BY SMT DEF Check, IInv, TypeOK, Sets
  <2> QED BY <2>1, <2>2, <2>3 DEF Flags, Places, Sets, TypeOK
<1>2. FailuresFit'
  BY SMT DEF Check, Fail, GivesUp, IInv, TypeOK, FailuresFit, Leaves
<1>3. OneThread' /\ Owns' /\ ServesAll'
  BY StreamAssumption, SMT DEF Check, Fail, IInv, TypeOK, OneThread, Owns, ServesAll, Alive,
     Streaming, None
<1>4. StopFits' /\ HeardFits' /\ LeavingFits'
  BY SMT DEF Check, Fail, IInv, TypeOK, StopFits, HeardFits, LeavingFits, Leaves
<1> QED BY <1>1, <1>2, <1>3, <1>4 DEF IInv

LEMMA ConnectedPreserves ==
  ASSUME IInv, NEW w \in Workers, Connected(w)
  PROVE  IInv'
<1>1. TypeOK'
  BY StreamAssumption, SMT DEF Connected, StatusOnConnect, IInv, TypeOK, PC
<1>2. FailuresFit'
  BY StreamAssumption, SMT DEF Connected, IInv, FailuresFit, Leaves
<1>3. OneThread' /\ Owns' /\ ServesAll'
  BY SMT DEF Connected, IInv, TypeOK, OneThread, Owns, ServesAll, Awaited, Asked, Alive
<1>4. StopFits' /\ HeardFits' /\ LeavingFits'
  BY SMT DEF Connected, StatusOnConnect, IInv, StopFits, HeardFits, LeavingFits, Leaves,
     Streaming
<1> QED BY <1>1, <1>2, <1>3, <1>4 DEF IInv

LEMMA BreaksPreserves ==
  ASSUME IInv, NEW w \in Workers, Breaks(w)
  PROVE  IInv'
<1>1. TypeOK'
  <2>1. Flags'
    BY Zenon DEF Breaks, Fail, IInv, TypeOK, Flags
  <2>2. Places'
    BY StreamAssumption, SMT DEF Breaks, Fail, FailuresNow, IInv, TypeOK, FailuresFit,
       Leaves, PC, Places
  <2>3. Sets'
    BY SMT DEF Breaks, IInv, TypeOK, Sets
  <2> QED BY <2>1, <2>2, <2>3 DEF Flags, Places, Sets, TypeOK
<1>2. FailuresFit'
  BY SMT DEF Breaks, Fail, GivesUp, IInv, TypeOK, FailuresFit, Leaves
<1>3. OneThread' /\ Owns' /\ ServesAll'
  BY SMT DEF Breaks, Fail, IInv, TypeOK, OneThread, Owns, ServesAll, Alive, Streaming
<1>4. StopFits' /\ HeardFits' /\ LeavingFits'
  BY SMT DEF Breaks, Fail, IInv, TypeOK, StopFits, HeardFits, LeavingFits, Leaves
<1> QED BY <1>1, <1>2, <1>3, <1>4 DEF IInv

LEMMA StreamEndsPreserves ==
  ASSUME IInv, NEW w \in Workers, StreamEnds(w)
  PROVE  IInv'
<1>1. TypeOK'
  BY SMT DEF StreamEnds, Finish, Shared, IInv, TypeOK, PC
<1>2. FailuresFit'
  BY SMT DEF StreamEnds, Finish, IInv, FailuresFit, Leaves
<1>3. OneThread' /\ Owns' /\ ServesAll'
  BY SMT DEF StreamEnds, Finish, Shared, IInv, TypeOK, OneThread, Owns, ServesAll, Alive,
     Streaming
<1>4. StopFits' /\ HeardFits' /\ LeavingFits'
  BY SMT DEF StreamEnds, Finish, Shared, IInv, TypeOK, StopFits, HeardFits, LeavingFits,
     Leaves
<1> QED BY <1>1, <1>2, <1>3, <1>4 DEF IInv

LEMMA MessagePreserves ==
  ASSUME IInv, NEW w \in Workers, Message(w)
  PROVE  IInv'
<1>1. TypeOK'
  <2>1. Flags'
    BY Zenon DEF Message, Finish, IInv, TypeOK, Flags
  <2>2. Places'
    BY SMT DEF Message, Finish, IInv, TypeOK, PC, Places
  <2>3. Sets'
    BY SMT DEF Message, IInv, TypeOK, Sets
  <2> QED BY <2>1, <2>2, <2>3 DEF Flags, Places, Sets, TypeOK
<1>2. FailuresFit'
  BY SMT DEF Message, Finish, IInv, TypeOK, FailuresFit, Leaves
<1>3. OneThread' /\ Owns' /\ ServesAll'
  BY SMT DEF Message, Finish, IInv, TypeOK, OneThread, Owns, ServesAll, Awaited, Asked, Alive,
     Streaming
<1>4. StopFits' /\ HeardFits' /\ LeavingFits'
  BY SMT DEF Message, IInv, TypeOK, StopFits, HeardFits, LeavingFits, Leaves, Streaming
<1> QED BY <1>1, <1>2, <1>3, <1>4 DEF IInv

LEMMA CallbackReturnsPreserves ==
  ASSUME IInv, NEW w \in Workers, CallbackReturns(w)
  PROVE  IInv'
<1>1. TypeOK'
  BY SMT DEF CallbackReturns, Finish, Shared, IInv, TypeOK, PC
<1>2. FailuresFit'
  BY SMT DEF CallbackReturns, Finish, IInv, TypeOK, FailuresFit, Leaves
<1>3. OneThread' /\ Owns' /\ ServesAll'
  BY SMT DEF CallbackReturns, Finish, Shared, IInv, TypeOK, OneThread, Owns, ServesAll,
     Awaited, Asked, Alive, Streaming
<1>4. StopFits' /\ HeardFits' /\ LeavingFits'
  BY SMT DEF CallbackReturns, Shared, IInv, TypeOK, StopFits, HeardFits, LeavingFits,
     Leaves, Streaming
<1> QED BY <1>1, <1>2, <1>3, <1>4 DEF IInv

LEMMA CallbackDisconnectsPreserves ==
  ASSUME IInv, NEW w \in Workers, CallbackDisconnects(w)
  PROVE  IInv'
<1>1. TypeOK'
  BY SMT DEF CallbackDisconnects, Shared, IInv, TypeOK, PC
<1>2. FailuresFit'
  BY SMT DEF CallbackDisconnects, IInv, FailuresFit, Leaves
<1>3. OneThread' /\ Owns' /\ ServesAll'
  BY SMT DEF CallbackDisconnects, Shared, IInv, OneThread, Owns, ServesAll, Awaited, Asked, Alive,
     Streaming
<1>4. StopFits' /\ HeardFits' /\ LeavingFits'
  BY SMT DEF CallbackDisconnects, Shared, IInv, StopFits, HeardFits, LeavingFits, Leaves,
     Streaming
<1> QED BY <1>1, <1>2, <1>3, <1>4 DEF IInv

LEMMA WakePreserves ==
  ASSUME IInv, NEW w \in Workers, Wake(w)
  PROVE  IInv'
<1>1. TypeOK'
  BY SMT DEF Wake, Shared, IInv, TypeOK, PC
<1>2. FailuresFit'
  BY SMT DEF Wake, IInv, FailuresFit, Leaves
<1>3. OneThread' /\ Owns' /\ ServesAll'
  BY SMT DEF Wake, Shared, IInv, OneThread, Owns, ServesAll, Awaited, Asked, Alive, Streaming
<1>4. StopFits' /\ HeardFits' /\ LeavingFits'
  BY SMT DEF Wake, Shared, IInv, TypeOK, StopFits, HeardFits, LeavingFits, Leaves
<1> QED BY <1>1, <1>2, <1>3, <1>4 DEF IInv

LEMMA FinallyPreserves ==
  ASSUME IInv, NEW w \in Workers, Finally(w)
  PROVE  IInv'
<1>1. TypeOK'
  BY SMT DEF Finally, IInv, TypeOK, PC
<1>2. FailuresFit'
  BY SMT DEF Finally, IInv, FailuresFit, Leaves
<1>3. OneThread' /\ Owns' /\ ServesAll'
  BY StreamAssumption, SMT DEF Finally, IInv, OneThread, Owns, ServesAll, Alive, Streaming,
     None
<1>4. StopFits' /\ HeardFits' /\ LeavingFits'
  BY SMT DEF Finally, IInv, StopFits, HeardFits, LeavingFits, Leaves
<1> QED BY <1>1, <1>2, <1>3, <1>4 DEF IInv

LEMMA EndsPreserves ==
  ASSUME IInv, NEW w \in Workers, Ends(w)
  PROVE  IInv'
<1>1. TypeOK'
  BY SMT DEF Ends, IInv, TypeOK, PC
<1>2. FailuresFit'
  BY SMT DEF Ends, IInv, FailuresFit, Leaves
<1>3. OneThread' /\ Owns' /\ ServesAll'
  BY StreamAssumption, SMT DEF Ends, IInv, TypeOK, OneThread, Owns, ServesAll, Alive,
     Streaming, None
<1>4. StopFits' /\ HeardFits' /\ LeavingFits'
  BY SMT DEF Ends, IInv, StopFits, HeardFits, LeavingFits, Leaves
<1> QED BY <1>1, <1>2, <1>3, <1>4 DEF IInv

LEMMA ExitsPreserves ==
  ASSUME IInv, NEW w \in Workers, Exits(w)
  PROVE  IInv'
<1>1. TypeOK'
  BY SMT DEF Exits, Shared, IInv, TypeOK, PC
<1>2. FailuresFit'
  BY SMT DEF Exits, IInv, FailuresFit, Leaves
<1>3. OneThread' /\ Owns' /\ ServesAll'
  BY SMT DEF Exits, Shared, IInv, OneThread, Owns, ServesAll, Awaited, Asked, Alive, Streaming
<1>4. StopFits' /\ HeardFits' /\ LeavingFits'
  BY SMT DEF Exits, Shared, IInv, StopFits, HeardFits, LeavingFits, Leaves
<1> QED BY <1>1, <1>2, <1>3, <1>4 DEF IInv

LEMMA RunRequestPreserves ==
  ASSUME IInv, NEW w \in Workers, NEW list \in Lists, RunRequest(w, list)
  PROVE  IInv'
<1>1. TypeOK'
  <2>1. list \subseteq Symbols
    BY StreamAssumption
  <2>2. Flags'
    BY Zenon DEF RunRequest, Shared, IInv, TypeOK, Flags
  <2>3. Places'
    BY <2>1, SMT DEF RunRequest, Shared, IInv, TypeOK, Places
  <2>4. Sets'
    BY <2>1, SMT DEF RunRequest, IInv, TypeOK, Sets
  <2> QED BY <2>2, <2>3, <2>4 DEF Flags, Places, Sets, TypeOK
<1>2. FailuresFit'
  BY SMT DEF RunRequest, IInv, FailuresFit, Leaves
<1>3. OneThread' /\ Owns' /\ ServesAll'
  <2>1. OneThread' /\ Owns'
    BY Zenon DEF RunRequest, Shared, IInv, OneThread, Owns, Alive
  <2>2. ASSUME orphans = {}, NEW v \in Workers, pc[v] \in Streaming, open[v],
               NEW s \in subs \cap Good
        PROVE  Awaited(v, s)'
    <3>1. Awaited(v, s) /\ ws = v /\ v # None
      BY <2>2, StreamAssumption, SMT DEF IInv, ServesAll, Owns, None
    <3>2. /\ served \in [Workers -> SUBSET Symbols]
          /\ client' = client /\ requests' = requests \ {<<w, list>>}
      BY DEF IInv, TypeOK, RunRequest
    <3>3. \/ served' = [served EXCEPT ![v] = @ \cup list] /\ spoiled' = spoiled \ list
          \/ served' = served /\ spoiled' = spoiled \cup list
      BY <2>2, <3>1, SMT DEF RunRequest
    <3>4. CASE s \in list
      BY <3>2, <3>3, <3>4 DEF Awaited
    <3>5. CASE s \notin list
      <4>1. s \in served[v] \cup spoiled => s \in served'[v] \cup spoiled'
        BY <3>2, <3>3, <3>5
      <4>2. Asked(v, s) => Asked(v, s)'
        BY <3>2, <3>5, SMT DEF Asked
      <4> QED BY <3>1, <4>1, <4>2 DEF Awaited
    <3> QED BY <3>4, <3>5
  <2>3. ServesAll'
    BY <2>2, Zenon DEF RunRequest, Shared, ServesAll
  <2> QED BY <2>1, <2>3
<1>4. StopFits' /\ HeardFits' /\ LeavingFits'
  BY SMT DEF RunRequest, Shared, IInv, StopFits, HeardFits, LeavingFits, Leaves
<1> QED BY <1>1, <1>2, <1>3, <1>4 DEF IInv

LEMMA InitEstablishes == Init => IInv
<1> SUFFICES ASSUME Init PROVE IInv
  OBVIOUS
<1>1. Flags
  BY Zenon DEF Init, Flags
<1>2. Places /\ Sets
  BY StreamAssumption, SMT DEF Init, Places, Sets, PC, Actors, Symbols, None
<1>3. FailuresFit /\ OneThread /\ Owns /\ ServesAll /\ StopFits /\ HeardFits /\ LeavingFits
  BY StreamAssumption, SMT DEF Init, FailuresFit, OneThread, Owns, ServesAll, StopFits, HeardFits,
     LeavingFits, Alive, Leaves, Streaming, None
<1> QED BY <1>1, <1>2, <1>3 DEF IInv, TypeOK, Flags, Places, Sets

LEMMA StutterPreserves ==
  ASSUME IInv, UNCHANGED vars
  PROVE  IInv'
<1>1. TypeOK' /\ FailuresFit' /\ LeavingFits'
  BY Zenon DEF vars, Shared, OfWorkers, IInv, TypeOK, FailuresFit, LeavingFits, Leaves
<1>2. OneThread' /\ Owns' /\ ServesAll'
  BY Zenon DEF vars, Shared, OfWorkers, IInv, OneThread, Owns, ServesAll, Awaited, Asked, Alive
<1>3. StopFits' /\ HeardFits'
  BY Zenon DEF vars, Shared, OfWorkers, IInv, StopFits, HeardFits, Leaves
<1> QED BY <1>1, <1>2, <1>3 DEF IInv

LEMMA StepPreserves == IInv /\ [Next]_vars => IInv'
<1> SUFFICES ASSUME IInv, [Next]_vars PROVE IInv'
  OBVIOUS
<1>1. CASE Client
  BY <1>1, AuthenticatePreserves, SubscribePreserves, StartStreamPreserves, AskRunningPreserves,
     UnsubscribePreserves, WaitUntilReadyPreserves, AwakePreserves, TimeOutPreserves DEF Client
<1>2. ASSUME NEW a \in Actors, Joined(a) \/ Disconnect(a)
      PROVE  IInv'
  BY <1>2, JoinedPreserves, DisconnectPreserves
<1>3. ASSUME NEW w \in Workers, Worker(w)
      PROVE  IInv'
  <2>1. CASE Progress(w)
    BY <2>1, <1>2, BeginPreserves, CheckPreserves, ConnectedPreserves, BreaksPreserves,
       StreamEndsPreserves, CallbackReturnsPreserves, WakePreserves, FinallyPreserves,
       EndsPreserves, ExitsPreserves DEF Progress, Actors
  <2>2. CASE ~Progress(w)
    BY <1>3, <2>2, BreaksPreserves, StreamEndsPreserves, MessagePreserves,
       CallbackDisconnectsPreserves, RunRequestPreserves DEF Worker
  <2> QED BY <2>1, <2>2
<1> QED BY <1>1, <1>2, <1>3, StutterPreserves DEF Next, Actors

-----------------------------------------------------------------------------
(* The adapter keeps what relates its thread, socket, loop, events, status *)
(* and each worker at every step.                                          *)
THEOREM Inductive == Spec => []IInv
BY InitEstablishes, StepPreserves, PTL DEF Spec

(* The state of the adapter stays within its types; the failures a worker  *)
(* counts stay within the attempts it is given.                            *)
THEOREM TypeCorrect == Spec => []TypeOK
<1>1. IInv => TypeOK
  BY DEF IInv
<1> QED BY <1>1, Inductive, PTL

(* subscribe_ticks and the worker's resubscription: one stream, unless a   *)
(* disconnect gave one up, and it serves or will serve every symbol the    *)
(* client holds, but those last asked for in one call with a symbol that   *)
(* does not resolve.                                                       *)
THEOREM OneStream == Spec => []OneStreamServesAll
<1>1. IInv => OneStreamServesAll
  BY Zenon DEF IInv, OneThread, ServesAll, Awaited, Asked, Streaming, OneStreamServesAll
<1> QED BY <1>1, Inductive, PTL

(* get_feed_status and wait_until_ready: connected means that a worker has *)
(* heard a tick, and when the worker has ended nobody is left waiting.     *)
THEOREM StatusIsTruthful == Spec => []TruthfulStatus
<1>1. ASSUME IInv
      PROVE  TruthfulStatus
  <2>1. ASSUME status = "LIVE_CONNECTED", lock = None
        PROVE  \E w \in Workers : heard[w] /\ Alive(w)
    <3>1. PICK w \in Workers : heard[w] /\ pc[w] \in Streaming \cup {"check", "finally"}
      BY <1>1, <2>1 DEF IInv, HeardFits
    <3>2. Alive(w)
      BY <3>1, StreamAssumption DEF Alive, Streaming, None
    <3> QED BY <3>1, <3>2
  <2>2. ASSUME thread # None, pc[thread] = "dead"
        PROVE  /\ ready
               /\ orphans = {} => \A w \in Workers : ~Alive(w)
    BY <1>1, <2>2 DEF IInv, LeavingFits, Leaves, OneThread, Alive
  <2> QED BY <2>1, <2>2 DEF TruthfulStatus
<1> QED BY <1>1, Inductive, PTL
=============================================================================
