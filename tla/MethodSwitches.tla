---------------------------- MODULE MethodSwitches ----------------------------
(***************************************************************************)
(* The switches of a server process: ThrottleManager and MonitorManager.   *)
(* Both keep a List<string> behind a lock.  IsThrottled takes the lock, so *)
(* the throttled methods are a set here.  SaveResponseMethodEnable does    *)
(* not: the list of methods whose responses are logged is modelled with    *)
(* the array behind it and every access List<T> makes to it.  A full array *)
(* grows by one slot here (by doubling in .NET): the list with the spare   *)
(* slots is replaced before it can use a second one.                       *)
(***************************************************************************)
EXTENDS Naturals, Sequences

CONSTANTS
  Method,      \* full names of methods
  NoMethod,    \* null, in an unused slot of an array
  Caller,      \* threads of the server
  MaxCommands  \* bound on commands to MonitorManager

ASSUME NoMethodAssumption == NoMethod \notin Method
ASSUME MaxCommandsAssumption == MaxCommands \in Nat

VARIABLES
  throttled,   \* throttleMethods
  arrays,      \* every array made so far
  lists,       \* every List<string> made so far: its array and its size
  op,          \* the command in the lock of MonitorManager
  commands,    \* commands to MonitorManager so far
  scan,        \* each thread's call of SaveResponseMethodEnable
  enabled,     \* history: what the commands so far have asked for
  seen         \* history: what each call has overlapped with

switchVars == <<throttled, arrays, lists, op, commands, scan, enabled, seen>>

Array == Seq(Method \union {NoMethod})

\* saveResponseMethods is the newest list.
Current == lists[Len(lists)]

Slots == arrays[Current.array]

Free == op.at = "free"

SwitchTypeOK ==
  /\ throttled \in SUBSET Method
  /\ arrays \in Seq(Array) /\ Len(arrays) > 0
  /\ lists \in Seq([array : Nat, size : Nat]) /\ Len(lists) > 0
  /\ \A n \in 1 .. Len(lists) : lists[n].array \in 1 .. Len(arrays)
  /\ op \in [at : {"free", "add", "size", "store", "publish", "del", "shift", "clear"},
             method : Method \union {NoMethod}]
  /\ ~Free => op.method \in Method
  /\ commands \in 0 .. MaxCommands
  /\ scan \in [Caller -> [at : {"none", "array", "size", "slot", "yes", "no", "throws"},
                          method : Method \union {NoMethod},
                          list : Nat, array : Nat, count : Nat, next : Nat]]
  /\ enabled \in SUBSET Method
  /\ seen \in [Caller -> [is : SUBSET {"on", "off"}, with : SUBSET {"add", "del"}]]

NoScan == [at |-> "none", method |-> NoMethod, list |-> 0, array |-> 0,
           count |-> 0, next |-> 0]
NoneSeen == [is |-> {}, with |-> {}]
NoOp == [at |-> "free", method |-> NoMethod]

SwitchInit ==
  /\ throttled = {}
  /\ arrays = << <<>> >> /\ lists = << [array |-> 1, size |-> 0] >>
  /\ op = NoOp
  /\ commands = 0
  /\ scan = [c \in Caller |-> NoScan]
  /\ enabled = {} /\ seen = [c \in Caller |-> NoneSeen]

-----------------------------------------------------------------------------
\* ThrottleManager: Distinct() is applied under the lock, so a method is in
\* the list once and one Remove takes it out.
Throttle(m) ==
  /\ throttled' = throttled \union {m}
  /\ UNCHANGED <<arrays, lists, op, commands, scan, enabled, seen>>

\* Mutant of Unthrottle: the whole list goes.
UnthrottleAll(m) ==
  /\ throttled' = {}
  /\ UNCHANGED <<arrays, lists, op, commands, scan, enabled, seen>>

Unthrottle(m) ==
  /\ throttled' = throttled \ {m}
  /\ UNCHANGED <<arrays, lists, op, commands, scan, enabled, seen>>

-----------------------------------------------------------------------------
\* MonitorManager, under its lock.
Scanning(c) == scan[c].at \in {"array", "size", "slot"}

Standing(m) == IF m \in enabled THEN "on" ELSE "off"

\* The calls under way overlap with what the command does.
Overlapped(kind) ==
  seen' = [c \in Caller |->
             IF Scanning(c)
               THEN [is |-> seen[c].is \union {Standing(scan[c].method)'},
                     with |-> seen[c].with \union {kind}]
               ELSE seen[c]]

\* Mutant of AddSaveResponseMethod: without the lock.
AddWithoutLock(m) ==
  /\ commands < MaxCommands
  /\ commands' = commands + 1
  /\ op' = [at |-> "add", method |-> m]
  /\ UNCHANGED <<throttled, arrays, lists, scan, enabled>>
  /\ Overlapped("add")

AddSaveResponseMethod(m) ==
  /\ Free /\ commands < MaxCommands
  /\ commands' = commands + 1
  /\ op' = [at |-> "add", method |-> m]
  /\ UNCHANGED <<throttled, arrays, lists, scan, enabled>>
  /\ Overlapped("add")

\* List.Add makes room first: _items is replaced, _size comes later.
MakeRoom ==
  /\ op.at = "add"
  /\ IF Current.size < Len(Slots)
       THEN UNCHANGED <<arrays, lists>>
       ELSE /\ arrays' = Append(arrays, Append(Slots, NoMethod))
            /\ lists' = [lists EXCEPT ![Len(lists)].array = Len(arrays) + 1]
  /\ op' = [op EXCEPT !.at = "size"]
  /\ UNCHANGED <<throttled, commands, scan, enabled>>
  /\ Overlapped("add")

CountItem ==
  /\ op.at = "size"
  /\ lists' = [lists EXCEPT ![Len(lists)].size = @ + 1]
  /\ op' = [op EXCEPT !.at = "store"]
  /\ UNCHANGED <<throttled, arrays, commands, scan, enabled>>
  /\ Overlapped("add")

StoreItem ==
  /\ op.at = "store"
  /\ arrays' = [arrays EXCEPT ![Current.array] = [@ EXCEPT ![Current.size] = op.method]]
  /\ op' = [op EXCEPT !.at = "publish"]
  /\ enabled' = enabled \union {op.method}
  /\ UNCHANGED <<throttled, lists, commands, scan>>
  /\ Overlapped("add")

\* Mutant of Distinct: the list keeps what Add put at its end.
NotDistinct(s) == s

\* Only the item just added may be there already.
Distinct(s) ==
  IF \E i \in 1 .. Len(s) - 1 : s[i] = s[Len(s)]
    THEN SubSeq(s, 1, Len(s) - 1)
    ELSE s

\* Distinct().ToList() fills an array of exactly its size (as .NET Core does it;
\* .NET Framework leaves slots to spare, which an Add may then use).
PublishDistinct ==
  /\ op.at = "publish"
  /\ LET items == Distinct(SubSeq(Slots, 1, Current.size))
     IN /\ arrays' = Append(arrays, items)
        /\ lists' = Append(lists, [array |-> Len(arrays) + 1, size |-> Len(items)])
  /\ op' = NoOp
  /\ UNCHANGED <<throttled, commands, scan, enabled>>
  /\ Overlapped("add")

DelSaveResponseMethod(m) ==
  /\ Free /\ commands < MaxCommands
  /\ commands' = commands + 1
  /\ op' = [at |-> "del", method |-> m]
  /\ UNCHANGED <<throttled, arrays, lists, scan, enabled>>
  /\ Overlapped("del")

Items == {Slots[i] : i \in 1 .. Current.size}

\* List.Remove counts down, shifts the items behind, and clears the last slot.
NotThere ==
  /\ op.at = "del" /\ op.method \notin Items
  /\ op' = NoOp
  /\ enabled' = enabled \ {op.method}
  /\ UNCHANGED <<throttled, arrays, lists, commands, scan>>
  /\ Overlapped("del")

\* Mutant of CountDown: without looking for the method.
CountDownAlways ==
  /\ op.at = "del"
  /\ lists' = [lists EXCEPT ![Len(lists)].size = @ - 1]
  /\ op' = [op EXCEPT !.at = "shift"]
  /\ UNCHANGED <<throttled, arrays, commands, scan, enabled>>
  /\ Overlapped("del")

CountDown ==
  /\ op.at = "del" /\ op.method \in Items
  /\ lists' = [lists EXCEPT ![Len(lists)].size = @ - 1]
  /\ op' = [op EXCEPT !.at = "shift"]
  /\ UNCHANGED <<throttled, arrays, commands, scan, enabled>>
  /\ Overlapped("del")

Shift ==
  /\ op.at = "shift"
  /\ LET gone == CHOOSE i \in 1 .. Current.size + 1 : Slots[i] = op.method
     IN arrays' = [arrays EXCEPT ![Current.array] =
                     [i \in 1 .. Len(Slots) |->
                        IF i >= gone /\ i <= Current.size THEN Slots[i + 1] ELSE Slots[i]]]
  /\ op' = [op EXCEPT !.at = "clear"]
  /\ enabled' = enabled \ {op.method}
  /\ UNCHANGED <<throttled, lists, commands, scan>>
  /\ Overlapped("del")

ClearSlot ==
  /\ op.at = "clear"
  /\ arrays' = [arrays EXCEPT ![Current.array] = [@ EXCEPT ![Current.size + 1] = NoMethod]]
  /\ op' = NoOp
  /\ UNCHANGED <<throttled, lists, commands, scan, enabled>>
  /\ Overlapped("del")

-----------------------------------------------------------------------------
\* SaveResponseMethodEnable, with GlobalSaveResponseEnable off (when it is on
\* the list is not read): List.Contains without the lock.  It loads the
\* list and tests its size, then loads the array, then the size again.
ScanFrom(c, m) ==
  /\ scan' = [scan EXCEPT ![c] =
                [NoScan EXCEPT !.method = m, !.list = Len(lists),
                               !.at = IF Current.size = 0 THEN "no" ELSE "array"]]
  /\ seen' = [seen EXCEPT ![c] =
                [is |-> {Standing(m)},
                 with |-> IF Free THEN {}
                          ELSE IF op.at \in {"del", "shift", "clear"} THEN {"del"}
                          ELSE {"add"}]]
  /\ UNCHANGED <<throttled, arrays, lists, op, commands, enabled>>

SaveResponseMethodEnable(c, m) == scan[c].at = "none" /\ ScanFrom(c, m)

LoadArray(c) ==
  /\ scan[c].at = "array"
  /\ scan' = [scan EXCEPT ![c].at = "size", ![c].array = lists[scan[c].list].array]
  /\ UNCHANGED <<throttled, arrays, lists, op, commands, enabled, seen>>

\* Array.IndexOf throws when it is asked to search past the array's end.
LoadSize(c) ==
  /\ scan[c].at = "size"
  /\ LET count == lists[scan[c].list].size
     IN scan' = [scan EXCEPT ![c].count = count, ![c].next = 1,
                   ![c].at = IF count > Len(arrays[scan[c].array]) THEN "throws" ELSE "slot"]
  /\ UNCHANGED <<throttled, arrays, lists, op, commands, enabled, seen>>

ReadSlot(c) ==
  /\ scan[c].at = "slot"
  /\ LET s == scan[c]
     IN scan' = [scan EXCEPT ![c] =
                   IF s.next > s.count THEN [s EXCEPT !.at = "no"]
                   ELSE IF arrays[s.array][s.next] = s.method THEN [s EXCEPT !.at = "yes"]
                   ELSE [s EXCEPT !.next = @ + 1]]
  /\ UNCHANGED <<throttled, arrays, lists, op, commands, enabled, seen>>

\* The caller has used the answer.
Forget(c) ==
  /\ scan[c].at \in {"yes", "no", "throws"}
  /\ scan' = [scan EXCEPT ![c] = NoScan]
  /\ seen' = [seen EXCEPT ![c] = NoneSeen]
  /\ UNCHANGED <<throttled, arrays, lists, op, commands, enabled>>

-----------------------------------------------------------------------------
Command(m) ==
  Throttle(m) \/ Unthrottle(m) \/ AddSaveResponseMethod(m) \/ DelSaveResponseMethod(m)

InLock ==
  \/ MakeRoom \/ CountItem \/ StoreItem \/ PublishDistinct
  \/ NotThere \/ CountDown \/ Shift \/ ClearSlot

ScanStep(c) == LoadArray(c) \/ LoadSize(c) \/ ReadSlot(c) \/ Forget(c)

SwitchNext ==
  \/ \E m \in Method : Command(m)
  \/ InLock
  \/ \E c \in Caller :
       ScanStep(c) \/ \E m \in Method : SaveResponseMethodEnable(c, m)

SwitchSpec == SwitchInit /\ [][SwitchNext]_switchVars
-----------------------------------------------------------------------------
\* When no command is in progress the list is what the commands have asked
\* for, each method once, in whatever order and place they have moved it.
LastCommandWins ==
  Free =>
    /\ Items = enabled
    /\ \A i, j \in 1 .. Current.size : Slots[i] = Slots[j] => i = j

\* The check without the lock fails only under an Add that replaces the array
\* between its two loads ...
ThrowsUnderAddOnly ==
  \A c \in Caller : scan[c].at = "throws" => "add" \in seen[c].with

\* ... and is wrong only under a Del, which may shift the method past it: else
\* it gives an answer that was right at some moment of the call.
WrongUnderDelOnly ==
  \A c \in Caller :
    "del" \notin seen[c].with =>
      /\ scan[c].at = "no" => "off" \in seen[c].is
      /\ scan[c].at = "yes" => "on" \in seen[c].is

CheckSound == ThrowsUnderAddOnly /\ WrongUnderDelOnly
=============================================================================
