------------------------------- MODULE Router -------------------------------
(***************************************************************************)
(* MessageRouter of socket/router.py.                                      *)
(*                                                                         *)
(* dispatch() gives a node to the waiter of its id, then calls the         *)
(* handlers of its routing keys and awaits each; registrations come and go *)
(* meanwhile.  Frames are dispatched one after the other.                  *)
(***************************************************************************)
EXTENDS Naturals, Sequences, FiniteSets, SequencesExt

CONSTANTS
  Handlers,  \* the functions that may be registered
  Routes     \* the routing keys they are registered under

VARIABLES
  inbox,     \* what each frame was decoded to, {} if it could not be (history)
  handlers,  \* MessageRouter._handlers
  waiter,    \* MessageRouter._pending: {} or {<<future, frames read before>>} of one id
  futures,   \* futures made (history)
  resolved,  \* those that have a result (history)
  dispatch,  \* the dispatch() under way
  due        \* handlers it has to call still (history)

router == <<inbox, handlers, waiter, futures, resolved, dispatch, due>>

Id == <<"i">>       \* the id of the waiter
IdKey == <<"id">>

Idle == [keys |-> <<>>, queue |-> <<>>, seen |-> {}]

Child(node) ==
  IF node.content.kind = "list" /\ node.content.items # <<>>
  THEN node.content.items[1].tag ELSE <<>>

\* routing_keys: three for each attribute, then the tag with the child and alone.
KeysOf(node, attr) ==
  LET k == attr[1]
      v == CHOOSE s \in attr[2] : TRUE
  IN  <<<<node.tag, k, v, Child(node)>>, <<node.tag, k, v>>, <<node.tag, k>>>>
RoutingKeys(node) ==
  [i \in 1..(3 * Len(node.attrs)) |-> KeysOf(node, node.attrs[(i + 2) \div 3])[1 + ((i - 1) % 3)]]
  \o <<<<node.tag, <<>>, Child(node)>>, <<node.tag>>>>

HandlersOf(key) == IF key \in Routes THEN handlers[key] ELSE <<>>
IdsOf(node) == UNION {a[2] : a \in {a \in ToSet(node.attrs) : a[1] = IdKey}}

\* A frame: the waiter of its id gets the node, and the dispatch of its handlers begins;
\* one that could not be decoded is skipped.
Dispatch(frame) ==
  /\ dispatch = Idle
  /\ inbox' = Append(inbox, frame)
  /\ UNCHANGED <<handlers, futures>>
  /\ \/ frame = {} /\ UNCHANGED <<waiter, resolved, dispatch, due>>
     \/ \E node \in frame :
          /\ IF Id \in IdsOf(node)
             THEN waiter' = {} /\ resolved' = resolved \cup waiter
             ELSE UNCHANGED <<waiter, resolved>>
          /\ dispatch' = [Idle EXCEPT !.keys = RoutingKeys(node)]
          /\ due' = {h \in Handlers : \E k \in ToSet(RoutingKeys(node)) :
                                        h \in ToSet(HandlersOf(k))}

Unseen(list) == {i \in 1..Len(list) : list[i] \notin dispatch.seen}
Earliest(S) == {i \in S : \A j \in S : i <= j}

\* Slip: the handlers under the first key are called, the other keys are not looked at.
FirstKeyOnly(keys) == {i \in 1..Len(keys) : i = 1 /\ Unseen(HandlersOf(keys[i])) # {}}
ToCall(keys) == {i \in 1..Len(keys) : Unseen(HandlersOf(keys[i])) # {}}

\* The next handler of a snapshot is called and awaited, with the rest of it and the keys
\* still to come.
Call(list, keys) ==
  \E i \in Earliest(Unseen(list)) :
    /\ dispatch' = [keys |-> keys, queue |-> SubSeq(list, i + 1, Len(list)),
                    seen |-> dispatch.seen \cup {list[i]}]
    /\ due' = due \ {list[i]}

\* dispatch() up to the next handler it awaits: the next of the snapshot it has, or of the
\* first key that has one it did not call; or to its end.
CallNext ==
  /\ dispatch # Idle
  /\ \/ Call(dispatch.queue, dispatch.keys)
     \/ /\ Unseen(dispatch.queue) = {}
        /\ \E i \in Earliest(ToCall(dispatch.keys)) :
             Call(HandlersOf(dispatch.keys[i]), SubSeq(dispatch.keys, i + 1, Len(dispatch.keys)))
     \/ /\ Unseen(dispatch.queue) = {} /\ ToCall(dispatch.keys) = {}
        /\ dispatch' = Idle /\ UNCHANGED due
  /\ UNCHANGED <<inbox, handlers, waiter, futures, resolved>>

\* The handler that is awaited raises: dispatch() ends with it and calls no other.
Raise ==
  /\ dispatch.seen # {}
  /\ dispatch' = Idle /\ due' = {}
  /\ UNCHANGED <<inbox, handlers, waiter, futures, resolved>>

\* on() and the function it returns; a handler that is removed is not owed a call.
On(key, h) ==
  /\ handlers' = [handlers EXCEPT ![key] = Append(@, h)]
  /\ UNCHANGED <<inbox, waiter, futures, resolved, dispatch, due>>
Off(key, h) ==
  /\ \E i \in Earliest({i \in 1..Len(handlers[key]) : handlers[key][i] = h}) :
       handlers' = [handlers EXCEPT ![key] = RemoveAt(@, i)]
  /\ due' = due \ {h}
  /\ UNCHANGED <<inbox, waiter, futures, resolved, dispatch>>

\* wait_for_id: a second waiter of an id takes the place of the first.
WaitForId ==
  /\ futures' = futures + 1
  /\ waiter' = {<<futures + 1, Len(inbox)>>}
  /\ UNCHANGED <<inbox, handlers, resolved, dispatch, due>>

RouterInit ==
  /\ inbox = <<>> /\ handlers = [k \in Routes |-> <<>>]
  /\ waiter = {} /\ futures = 0 /\ resolved = {}
  /\ dispatch = Idle /\ due = {}

RouterNext(frames) ==
  \/ \E frame \in frames : Dispatch(frame)
  \/ CallNext \/ Raise \/ WaitForId
  \/ \E k \in Routes, h \in Handlers : On(k, h) \/ Off(k, h)

RouterSpec(frames) == RouterInit /\ [][RouterNext(frames)]_router

\* Once a dispatch is over and none raised, every handler that was registered under a key of the node when
\* it began, and was not removed, has been called, whatever was registered or removed while
\* another handler was awaited; and nobody waits for an id that has come since.
Routed ==
  /\ dispatch = Idle => due = {}
  /\ \A w \in waiter : \A i \in (w[2] + 1)..Len(inbox) : \A node \in inbox[i] :
       Id \notin IdsOf(node)

=============================================================================
