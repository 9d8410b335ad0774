----------------------------- MODULE ObHandle -----------------------------
(***************************************************************************)
(* Objects, handles and one name: obx/obcreate.c, obhandle.c, obref.c and  *)
(* obtable.c.  The object manager lock raises to DISPATCH_LEVEL, so what   *)
(* is done between acquiring and releasing it is one step; the interlocked *)
(* decrement of a reference is another.  Between two steps any other       *)
(* thread may run.  A thread's call is the sequence of the steps it still  *)
(* has to make; a step may put further ones before the rest.               *)
(*                                                                         *)
(* The objects are of a type that has no close procedure and no parse      *)
(* procedure (all but files and devices), the name is that of an entry in  *)
(* one of the permanent directories, whose own count is left out.          *)
(***************************************************************************)
EXTENDS Integers, Sequences, FiniteSets

CONSTANTS
    Thread,
    Object,         \* places in memory for objects
    Handle,         \* entries of the handle table, all that pool allows
    NoObject,
    Attributes      \* [named, openif, permanent]: what objects are created with

ASSUME ObAssumption ==
    /\ NoObject \notin Object
    /\ Attributes \subseteq [named : BOOLEAN, openif : BOOLEAN, permanent : BOOLEAN]

VARIABLES
    object,         \* OBJECT_HEADER
    slot,           \* the handle table: the object of a handle
    entry,          \* the object found under the name: Directory # NULL
    todo,           \* the steps the call of a thread still has to make
    crashed         \* a null pointer was followed: the system has stopped

obVars == <<object, slot, entry, todo, crashed>>

NoHeader == [live |-> FALSE, pointers |-> 0, handles |-> 0,
             attached |-> FALSE, permanent |-> FALSE]

Init ==
    /\ object = [o \in Object |-> NoHeader]
    /\ slot = [h \in Handle |-> NoObject]
    /\ entry = NoObject
    /\ todo = [t \in Thread |-> <<>>]
    /\ crashed = FALSE

-----------------------------------------------------------------------------
(* The steps of a call.                                                    *)

Step(op, on) == [op |-> op, on |-> on]

(* Steps that own a reference of the object they are about.                *)
Owning == {"deref", "handle"}

Idle(t) == todo[t] = <<>> /\ ~crashed
At(t, op) == todo[t] # <<>> /\ Head(todo[t]).op = op /\ ~crashed
On(t) == Head(todo[t]).on
Rest(t) == Tail(todo[t])

Does(t, steps) == todo' = [todo EXCEPT ![t] = steps]

Free(h) == slot[h] = NoObject

(* Memory that nobody can still point to may be allocated.                 *)
Unused(o) ==
    ~object[o].live
        /\ \A t \in Thread : \A i \in 1..Len(todo[t]) : todo[t][i].on # o

-----------------------------------------------------------------------------
(* ObCreateObject and ObInsertObject.                                      *)

ObCreateObject(t) ==
    /\ Idle(t)
    /\ \E o \in Object, how \in Attributes :
        /\ Unused(o)
        /\ object' = [object EXCEPT ![o] = [NoHeader EXCEPT !.live = TRUE, !.pointers = 1]]
        /\ Does(t, <<[op |-> "insert", on |-> o, how |-> how], Step("deref", o)>>)
    /\ UNCHANGED <<slot, entry, crashed>>

(* The name is taken, or there is no handle: the object goes with its      *)
(* first reference.                                                        *)
InsertFails(t) ==
    /\ At(t, "insert")
    /\ \/ Head(todo[t]).how.named /\ entry # NoObject /\ ~Head(todo[t]).how.openif
       \/ \A h \in Handle : ~Free(h)
    /\ Does(t, Rest(t))
    /\ UNCHANGED <<object, slot, entry, crashed>>

(* A handle for the object, or with OBJ_OPENIF for the one that has the    *)
(* name.                                                                   *)
ObInsertObject(t) ==
    /\ At(t, "insert")
    /\ LET how   == Head(todo[t]).how
           found == how.named /\ entry # NoObject
           names == how.named /\ entry = NoObject
           o     == IF found THEN entry ELSE On(t)
       IN  /\ found => how.openif
           /\ \E h \in Handle : Free(h) /\ slot' = [slot EXCEPT ![h] = o]
           /\ object' = [object EXCEPT
                ![o].pointers = @ + (IF names THEN 2 ELSE 1),
                ![o].handles = @ + 1,
                ![o].attached = @ \/ names,
                ![o].permanent = @ \/ how.permanent]
           /\ entry' = IF names THEN o ELSE entry
    /\ Does(t, Rest(t))
    /\ UNCHANGED crashed

-----------------------------------------------------------------------------
(* Handles.                                                                *)

(* ObpCreateObjectHandle for an object the caller has referenced: the      *)
(* reference becomes that of the handle, or is given back.                 *)
CreateObjectHandle(t) ==
    /\ At(t, "handle")
    /\ \/ /\ \E h \in Handle : Free(h) /\ slot' = [slot EXCEPT ![h] = On(t)]
          /\ object' = [object EXCEPT ![On(t)].handles = @ + 1]
          /\ Does(t, Rest(t))
       \/ /\ \A h \in Handle : ~Free(h)
          /\ Does(t, <<Step("deref", On(t))>> \o Rest(t))
          /\ UNCHANGED <<slot, object>>
    /\ UNCHANGED <<entry, crashed>>

(* Shall the object go out of its directory when it has n handles?         *)
Detaches(o, n) == n = 0 /\ object[o].attached /\ ~object[o].permanent

(* NtClose: what it does with the lock held; n is the count it has read.   *)
(* ObpDetachNamedObject takes the object out of its directory.  The        *)
(* references of the handle and of the directory go after that.            *)
CloseWith(t, n) ==
    /\ At(t, "close") /\ ~Free(On(t))
    /\ LET o == slot[On(t)]
       IN  /\ Detaches(o, n) => entry = o
           /\ slot' = [slot EXCEPT ![On(t)] = NoObject]
           /\ object' = [object EXCEPT ![o].handles = @ - 1]
           /\ entry' = IF Detaches(o, n) THEN NoObject ELSE entry
           /\ Does(t, (IF Detaches(o, n) THEN <<Step("deref", o)>> ELSE <<>>)
                        \o <<Step("deref", o)>> \o Rest(t))
    /\ UNCHANGED crashed

HandlesAfter(t) == object[slot[On(t)]].handles - 1

(* Mutation: the count is read before the handle is taken off it. *)
CloseReadsFirst(t) == CloseWith(t, object[slot[On(t)]].handles)

NtClose(t) == CloseWith(t, HandlesAfter(t))

(* The handle is not one, or not any more.                                 *)
CloseInvalid(t) ==
    /\ At(t, "close") /\ Free(On(t))
    /\ Does(t, Rest(t))
    /\ UNCHANGED <<object, slot, entry, crashed>>

Close(t) ==
    /\ Idle(t)
    /\ \E h \in Handle : ~Free(h) /\ Does(t, <<Step("close", h)>>)
    /\ UNCHANGED <<object, slot, entry, crashed>>

(* ObReferenceObjectByHandle and the lookup of ObpReferenceObjectByName:   *)
(* the call goes on with a reference.                                      *)
References(t, o, steps) ==
    /\ object' = [object EXCEPT ![o].pointers = @ + 1]
    /\ Does(t, steps)
    /\ UNCHANGED <<slot, entry, crashed>>

(* NtDuplicateObject; with DUPLICATE_CLOSE_SOURCE it closes the source     *)
(* before it makes the new handle.                                         *)
NtDuplicateObject(t) ==
    /\ Idle(t)
    /\ \E h \in Handle, closes \in BOOLEAN :
        /\ ~Free(h)
        /\ References(t, slot[h], (IF closes THEN <<Step("close", h)>> ELSE <<>>)
                                    \o <<Step("open", slot[h]), Step("deref", slot[h])>>)

(* ObOpenObjectByPointer: a reference, and the handle for it.              *)
ObOpenObjectByPointer(t) ==
    /\ At(t, "open")
    /\ References(t, On(t), <<Step("handle", On(t))>> \o Rest(t))

(* ObOpenObjectByName: NtOpenTimer, NtOpenEvent, ...                       *)
ObOpenObjectByName(t) ==
    /\ Idle(t) /\ entry # NoObject
    /\ References(t, entry, <<Step("handle", entry)>>)

NtMakeTemporaryObject(t) ==
    /\ Idle(t)
    /\ \E h \in Handle :
        /\ ~Free(h)
        /\ References(t, slot[h], <<Step("temporary", slot[h]), Step("deref", slot[h])>>)

ObMakeTemporaryObject(t) ==
    /\ At(t, "temporary")
    /\ LET detaches == object[On(t)].handles = 0 /\ object[On(t)].attached
       IN  /\ detaches => entry = On(t)
           /\ entry' = IF detaches THEN NoObject ELSE entry
           /\ Does(t, (IF detaches THEN <<Step("deref", On(t))>> ELSE <<>>) \o Rest(t))
    /\ object' = [object EXCEPT ![On(t)].permanent = FALSE]
    /\ UNCHANGED <<slot, crashed>>

(* OB_FLAG_ATTACHED_OBJECT is never cleared: an object that was detached   *)
(* before has a null pointer where ObpDetachNamedObject reads the          *)
(* directory's hash buckets.                                               *)
DetachesAgain(t) ==
    /\ \/ /\ At(t, "close") /\ ~Free(On(t))
          /\ Detaches(slot[On(t)], HandlesAfter(t)) /\ entry # slot[On(t)]
       \/ /\ At(t, "temporary")
          /\ object[On(t)].handles = 0 /\ object[On(t)].attached /\ entry # On(t)
    /\ crashed' = TRUE
    /\ UNCHANGED <<object, slot, entry, todo>>

(* ObfDereferenceObject: with the last reference the object is deleted and *)
(* its memory freed.                                                       *)
Dereferenced(header) ==
    IF header.pointers = 1 THEN NoHeader ELSE [header EXCEPT !.pointers = @ - 1]

ObDereferenceObject(t) ==
    /\ At(t, "deref")
    /\ object' = [object EXCEPT ![On(t)] = Dereferenced(@)]
    /\ Does(t, Rest(t))
    /\ UNCHANGED <<slot, entry, crashed>>

(* What a thread in a call goes on with, and the calls.                    *)
ObStep(t) ==
    \/ InsertFails(t) \/ ObInsertObject(t) \/ CreateObjectHandle(t)
    \/ NtClose(t) \/ CloseInvalid(t) \/ ObOpenObjectByPointer(t)
    \/ ObMakeTemporaryObject(t) \/ DetachesAgain(t) \/ ObDereferenceObject(t)

ObCall(t) ==
    \/ ObCreateObject(t) \/ Close(t) \/ NtDuplicateObject(t)
    \/ ObOpenObjectByName(t) \/ NtMakeTemporaryObject(t)

Next == \E t \in Thread : ObStep(t) \/ ObCall(t)

Spec == Init /\ [][Next]_obVars

-----------------------------------------------------------------------------
(* Properties.                                                             *)

(* The references of o that calls still own.                               *)
Owned(o, owning) ==
    UNION {{t} \X {i \in DOMAIN todo[t] : todo[t][i].op \in owning /\ todo[t][i].on = o}
            : t \in Thread}

HandlesOf(o) == {h \in Handle : slot[h] = o}

(* A name that is not permanent is found only as long as there is a handle *)
(* of its object (NtMakeTemporaryObject: "removed from the object          *)
(* directory when the last handle is closed"): however handles are closed, *)
(* duplicated and opened by name, none is left behind.                     *)
NamesEndWithHandles ==
    entry # NoObject => object[entry].permanent \/ object[entry].handles > 0

(* ObpDetachNamedObject nulls the directory "so that we don't attempt to   *)
(* do this again": no object is detached that has been detached before.    *)
DetachedOnce == ~crashed

=============================================================================
