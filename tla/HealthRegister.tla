--------------------------- MODULE HealthRegister ---------------------------
(***************************************************************************)
(* What the device plugin promises the kubelet of the health of device     *)
(* IDs.  While a stream of ListAndWatch works, marks are only added, and   *)
(* the kubelet offers no ID that the last list has marked.  A list is no   *)
(* snapshot: each ID is read at a moment of its own between the beginning  *)
(* of the list and its delivery, so a list has every mark that was there   *)
(* when it was begun, and may have a later mark without an earlier one.    *)
(* Marks may be forgotten, by a new process or a new discovery, only when  *)
(* no stream works; and the next one starts with a list of its own.        *)
(***************************************************************************)
CONSTANT ID

VARIABLES
  connected,    \* a stream of ListAndWatch works
  marked,       \* the IDs that are recorded as Unhealthy
  listed,       \* those that were read as marked for this stream
  unread,       \* the IDs that the list in the making has yet to read
  offered       \* the IDs that the kubelet believes to be Healthy

vars == <<connected, marked, listed, unread, offered>>

Init ==
  connected = FALSE /\ marked = {} /\ listed = {} /\ unread = {} /\ offered = {}

\* A list is of the IDs that there are; those that are marked are among them.
Begin == unread' \in SUBSET ID /\ marked' \subseteq unread'

\* The stream that works may be told of a mark, and then begins another list.
Mark ==
  /\ \E ids \in SUBSET ID : marked' = marked \cup ids
  /\ \/ unread' = unread
     \/ connected /\ Begin
  /\ UNCHANGED <<connected, listed, offered>>

Connect ==
  /\ connected' = TRUE
  /\ listed' = {}
  /\ UNCHANGED <<marked, offered>>
  /\ Begin

\* What was read of an ID before can only have become worse.
Read ==
  /\ connected
  /\ \E ids \in SUBSET unread : /\ listed' = listed \cup (ids \cap marked)
                               /\ unread' = unread \ ids
  /\ UNCHANGED <<connected, marked, offered>>

Deliver ==
  /\ connected
  /\ unread = {}
  /\ offered' \in SUBSET (ID \ listed)
  /\ UNCHANGED <<connected, marked, listed, unread>>

\* With the stream go what it has listed, marks perhaps, and IDs on offer.
Disconnected ==
  /\ connected' = FALSE
  /\ listed' = {}
  /\ unread' = {}
  /\ marked' \in SUBSET marked
  /\ offered' \in SUBSET offered

Next == Mark \/ Connect \/ Read \/ Deliver \/ Disconnected

Spec == Init /\ [][Next]_vars
=============================================================================
