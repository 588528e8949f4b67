------------------------------- MODULE Dispmon -------------------------------
(***************************************************************************)
(* The message monitor of the simulation (pli/monitor/c/monitor.cc): every *)
(* checker reports through $dispmon, $writemon or dprintf, and this module *)
(* decides what is shown, counts errors and warnings and ends the          *)
(* simulation at the limits.                                               *)
(*                                                                         *)
(* The +unit/+tags/+tage/+montype/+monenable options of a simulation are   *)
(* the sequence dmOptions; do_init turns them into a table of units, each  *)
(* with a type and an enable for every tag.                                *)
(***************************************************************************)
EXTENDS Integers, Sequences, FiniteSets

CONSTANTS
    MAXUNITS,       \* entries of the table; entry 0 is the default unit
    DmUnits,        \* unit names in use
    DmTags,         \* the tags in use
    DmOptions,      \* options to choose from: [unit, inst, tags, tage, type, enable]; type "-" leaves the types
    MaxOptions,     \* bound on the options of a simulation (monnum)
    DmPolicies,     \* +maxerror, +maxwarning, +doerror and +dowarning: [limit, stop]
    MaxMessages,    \* bound on the messages and module calls of a behaviour
    Instances       \* Instances[i]: the entry instances that occur in the calling instance's name

ASSUME DmAssumption ==
    /\ MAXUNITS \in Nat \ {0} /\ DmTags \subseteq 0..49 /\ MaxOptions \in Nat
    /\ \A o \in DmOptions : /\ o.tags \in Int /\ o.tage \in Int /\ o.enable \in BOOLEAN
                            /\ o.type \in {"-", "GENERAL", "DEBUG", "WARNING", "ERROR"}
    /\ \A p \in DmPolicies : p.limit \in [{"err", "warn"} -> Int]

VARIABLES
    dmOptions, dmLimit, dmStop,   \* the options, max_errors/max_warnings and what to do then
    dmTable,                      \* MonitorEnables
    dmInit,                       \* monitors_initialized
    dmCount,                      \* global_errors, global_warnings
    dmEnable,                     \* err_wrn_enable
    dmLastMon,                    \* last_mon: the output is at the start of a line
    dmExternal, dmPending,        \* external_finish, finish_pending
    dmModules,                    \* num_modules
    dmEnded,                      \* what the monitor asked of the simulator last: "", "stop" or "finish"
    dmLast,                       \* the last message and what became of it
    dmSeen,                       \* ghost: errors and warnings that the options ask to count
    dmSteps

dmVars == <<dmOptions, dmLimit, dmStop, dmTable, dmInit, dmCount, dmEnable, dmLastMon, dmExternal, dmPending,
            dmModules, dmEnded, dmLast, dmSeen, dmSteps>>

Entries == 0..MAXUNITS-1
NoUnit == ""
NoInst == ""

(***************************************************************************)
(* do_init: the table before the options; tags 36 to 39 stay as static     *)
(* storage left them, the loop for 31..35 running twice.                   *)
(***************************************************************************)
DefaultType(t) == CASE t \in 0..20 -> "GENERAL" [] t \in 21..30 -> "DEBUG" [] t \in 31..35 -> "MONITOR2"
                    [] t \in 36..39 -> "none" [] t \in 40..47 -> "GENERAL" [] t = 48 -> "WARNING" [] t = 49 -> "ERROR"
DefaultEnable(t) == t \in 0..10 \/ t \in 31..35 \/ t \in {48, 49}

FreshEntry(u) == [unit |-> u, inst |-> NoInst,
                  type |-> [t \in DmTags |-> DefaultType(t)], enable |-> [t \in DmTags |-> DefaultEnable(t)]]
FreshTable == [j \in Entries |-> FreshEntry(IF j = 0 THEN "default" ELSE NoUnit)]

(* Every instance name contains the empty one: an option for an instance   *)
(* finds an entry for the bare unit, or for a part of its name.            *)
Occurs(entryInst, inst) == entryInst = NoInst \/ entryInst \in Instances[inst]
SameUnit(e, o) == e.unit = o.unit /\ IF o.inst = NoInst THEN e.inst = NoInst ELSE Occurs(e.inst, o.inst)

(* The entry an option changes: the first that matches or is free. *)
FindEntry(table, o) ==
    LET Fits(j) == SameUnit(table[j], o) \/ table[j].unit = NoUnit
    IN IF \E j \in Entries \ {0} : Fits(j)
       THEN CHOOSE j \in Entries \ {0} : Fits(j) /\ \A i \in 1..j-1 : ~Fits(i)
       ELSE MAXUNITS

Retag_type(e, o) ==
    [e EXCEPT !.type = [t \in DmTags |-> IF t \in o.tags..o.tage /\ o.type # "-" THEN o.type ELSE e.type[t]],
              !.enable = [t \in DmTags |-> IF t \in o.tags..o.tage /\ o.type = "-" THEN o.enable ELSE e.enable[t]]]
Retag(e, o) ==
    [e EXCEPT !.type = [t \in DmTags |-> IF t \in o.tags..o.tage /\ o.type # "-" THEN o.type ELSE e.type[t]],
              !.enable = [t \in DmTags |-> IF t \in o.tags..o.tage THEN o.enable ELSE e.enable[t]]]

(* One round of the option loop; an error ends do_init. *)
ApplyOption(s, o) ==
    LET j == FindEntry(s.table, o)
        named == IF s.table[j].unit = NoUnit
                 THEN [s.table[j] EXCEPT !.unit = o.unit, !.inst = o.inst] ELSE s.table[j]
    IN IF s.failed THEN s
       ELSE IF (o.unit # "all" /\ j = MAXUNITS) \/ o.tage < o.tags THEN [s EXCEPT !.failed = TRUE]
       ELSE IF o.unit = "all" THEN [s EXCEPT !.table = [i \in Entries |-> Retag(s.table[i], o)]]
       ELSE [s EXCEPT !.table = [s.table EXCEPT ![j] = Retag(named, o)]]

do_init(options) ==
    LET start == [table |-> FreshTable, failed |-> FALSE]
        done[n \in 0..Len(options)] == IF n = 0 THEN start ELSE LET p == done[n-1] IN ApplyOption(p, options[n])
    IN done[Len(options)]

(***************************************************************************)
(* dprintf                                                                 *)
(***************************************************************************)
(* The unit's entry, or the first free one (whose types are used with the  *)
(* default unit's enables), or the default one when the table is full.     *)
Lookup(unit, inst) ==
    LET Hit(j) == dmTable[j].unit = unit /\ Occurs(dmTable[j].inst, inst)
        Stop(j) == Hit(j) \/ dmTable[j].unit = NoUnit
        j == IF \E k \in Entries \ {0} : Stop(k)
             THEN CHOOSE k \in Entries \ {0} : Stop(k) /\ \A i \in 1..k-1 : ~Stop(i) ELSE 0
    IN [index |-> j, listed |-> j # 0 /\ Hit(j)]

Enabled(at, tag) == IF at.listed THEN dmTable[at.index].enable[tag] ELSE dmTable[0].enable[tag]

(* Printing: a $writemon text leaves the line open unless it ends in a     *)
(* newline.                                                                *)
NewLine(wm, nl) == ~wm \/ nl

(* A limit was reached: $stop, $finish, or, once $check_mon was called,    *)
(* no further errors and warnings and a pending finish.                    *)
Silenced == [j \in Entries |-> [dmTable[j] EXCEPT !.enable = [t \in DmTags |-> t \notin {48, 49} /\ dmTable[j].enable[t]]]]
LimitReached(finish) ==
    /\ dmEnded' = IF ~finish THEN "stop" ELSE IF dmExternal THEN dmEnded ELSE "finish"
    /\ dmPending' = (dmPending \/ (finish /\ dmExternal))
    /\ dmTable' = IF finish /\ dmExternal THEN Silenced ELSE dmTable

(* An error (k = "err") or a warning (k = "warn") that is shown. *)
Counted(k, blocked) ==
    LET n == IF blocked THEN dmCount[k] ELSE dmCount[k] + 1
    IN /\ dmCount' = [dmCount EXCEPT ![k] = n]
       /\ IF n >= dmLimit[k] THEN LimitReached(dmStop[k] = "finish")
          ELSE UNCHANGED <<dmEnded, dmPending, dmTable>>

NotCounted == UNCHANGED <<dmCount, dmEnded, dmPending, dmTable>>

(* What the options say of a message: the last one that names its unit, or *)
(* all units, for the tag.                                                 *)
Names(o, unit) == o.unit \in {unit, "all"}
Hits(unit, tag) == {n \in 1..Len(dmOptions) : Names(dmOptions[n], unit) /\ tag \in dmOptions[n].tags..dmOptions[n].tage}
Retypes(unit, tag) == {n \in Hits(unit, tag) : dmOptions[n].type # "-"}
LastOf(hits) == IF hits = {} THEN 0 ELSE CHOOSE n \in hits : \A m \in hits : m <= n
AskedOf(unit, tag) ==
    LET e == LastOf(Hits(unit, tag))
        t == LastOf(Retypes(unit, tag))
    IN [enable |-> IF e = 0 THEN DefaultEnable(tag) ELSE dmOptions[e].enable,
        type |-> IF t = 0 THEN DefaultType(tag) ELSE dmOptions[t].type]

Quieted(tag) == dmPending /\ tag \in {48, 49}

Message(unit, inst, tag, prefix, flags, nl) ==
    LET at == Lookup(unit, inst)
        type == dmTable[at.index].type[tag]
        asked == AskedOf(unit, tag)
        blocked == prefix \in {"-", "%"} \/ "BLOCK_COUNT" \in flags
        wm == "WRITEMON" \in flags
        loud == type \in {"GENERAL", "DEBUG", "MONITOR1", "MONITOR2"} \/ dmEnable \/ "FORCE" \in flags
        shown == Enabled(at, tag) /\ loud /\ type # "none"
        k == IF type = "ERROR" THEN "err" ELSE "warn"
    IN /\ IF shown /\ type \in {"ERROR", "WARNING"} THEN Counted(k, blocked) ELSE NotCounted
       /\ dmLastMon' = IF shown THEN NewLine(wm, nl) ELSE dmLastMon
       /\ dmLast' = [shown |-> shown, type |-> type,
                     asked |-> [type |-> asked.type,
                                shown |-> asked.enable /\ ~Quieted(tag) /\ asked.type # "none"
                                          /\ (asked.type \notin {"ERROR", "WARNING"} \/ dmEnable \/ "FORCE" \in flags)]]
       /\ dmSeen' = IF ~blocked /\ dmLast'.asked.shown /\ asked.type \in {"ERROR", "WARNING"}
                    THEN [dmSeen EXCEPT ![IF asked.type = "ERROR" THEN "err" ELSE "warn"] = @ + 1] ELSE dmSeen

(* A name that is only a prefix, or "all", is refused. *)
ValidName(unit) == unit # NoUnit /\ unit # "all"

dprintf ==
    /\ dmInit = "yes" /\ dmEnded # "finish" /\ dmSteps < MaxMessages
    /\ \E unit \in DmUnits, inst \in DOMAIN Instances, tag \in DmTags, prefix \in {"", "-"},
          flags \in SUBSET {"FORCE", "BLOCK_COUNT", "WRITEMON"}, nl \in BOOLEAN :
         /\ ValidName(unit) /\ (nl => "WRITEMON" \in flags) /\ (prefix = "-" => flags = {})
         /\ Message(unit, inst, tag, prefix, flags, nl)
    /\ dmSteps' = dmSteps + 1
    /\ UNCHANGED <<dmOptions, dmLimit, dmStop, dmInit, dmEnable, dmExternal, dmModules>>

(* The first message initialises the monitor; a bad option ends the        *)
(* simulation (and do_init is tried again by the next message).            *)
AutoInit ==
    /\ dmInit = "no"
    /\ LET s == do_init(dmOptions) IN
       /\ dmTable' = s.table
       /\ dmInit' = IF s.failed THEN "failed" ELSE "yes"
       /\ dmEnded' = IF s.failed THEN "finish" ELSE dmEnded
    /\ UNCHANGED <<dmOptions, dmLimit, dmStop, dmCount, dmEnable, dmLastMon, dmExternal, dmPending, dmModules, dmLast, dmSeen, dmSteps>>

(***************************************************************************)
(* The other system calls.                                                 *)
(***************************************************************************)
dmOther == <<dmOptions, dmLimit, dmStop, dmTable, dmInit, dmCount, dmPending, dmLast, dmSeen>>

errwarnmon(on) == /\ dmSteps < MaxMessages /\ dmEnable # on /\ dmEnable' = on /\ dmSteps' = dmSteps + 1
                  /\ UNCHANGED <<dmLastMon, dmExternal, dmModules, dmEnded, dmOther>>
enable_errwarnmon == errwarnmon(TRUE)
disable_errwarnmon == errwarnmon(FALSE)

check_mon == /\ dmEnded # "finish" /\ dmExternal' = TRUE /\ UNCHANGED <<dmEnable, dmLastMon, dmModules, dmEnded, dmSteps, dmOther>>

(* $writemon without arguments: the line is taken as ended. *)
writemon_reset == /\ dmLastMon' = TRUE /\ UNCHANGED <<dmEnable, dmExternal, dmModules, dmEnded, dmSteps, dmOther>>

module_start == /\ dmSteps < MaxMessages /\ dmSteps' = dmSteps + 1 /\ dmModules' = dmModules + 1
                /\ UNCHANGED <<dmEnable, dmLastMon, dmExternal, dmEnded, dmOther>>

module_end == /\ dmSteps < MaxMessages /\ dmSteps' = dmSteps + 1 /\ dmEnded # "finish"
              /\ dmModules' = IF dmModules > 0 THEN dmModules - 1 ELSE dmModules
              /\ dmEnded' = IF dmModules > 0 THEN dmEnded ELSE "finish"
              /\ UNCHANGED <<dmEnable, dmLastMon, dmExternal, dmOther>>

DmInit ==
    /\ dmOptions \in UNION {[1..n -> DmOptions] : n \in 0..MaxOptions}
    /\ \E p \in DmPolicies : dmLimit = p.limit /\ dmStop = p.stop
    /\ dmTable = FreshTable /\ dmInit = "no"
    /\ dmCount = [k \in {"err", "warn"} |-> 0] /\ dmSeen = [k \in {"err", "warn"} |-> 0]
    /\ dmEnable = TRUE /\ dmLastMon = TRUE /\ dmExternal = FALSE /\ dmPending = FALSE
    /\ dmModules = 0 /\ dmEnded = "" /\ dmSteps = 0
    /\ dmLast = [shown |-> FALSE, type |-> "none", asked |-> [type |-> "none", shown |-> FALSE]]

DmNext == \/ AutoInit \/ dprintf \/ enable_errwarnmon \/ disable_errwarnmon \/ check_mon \/ writemon_reset
          \/ module_start \/ module_end

DmSpec == DmInit /\ [][DmNext]_dmVars

(***************************************************************************)
(* Properties.                                                             *)
(***************************************************************************)
(* What happened to a message is what the options ask for its unit and     *)
(* tag: the last option for them wins whatever the order the units were    *)
(* first named in, unnamed units follow the default ones, and a full table *)
(* changes nothing.                                                        *)
(* The simulation goes on exactly as long as fewer errors and warnings     *)
(* than the limits were asked to be counted: no report is lost on the way  *)
(* to the limit, none is counted twice, and once $check_mon watches, a     *)
(* limit only makes a finish pending.                                      *)
ShownAsAsked ==
    LET Over(k) == dmStop[k] = "finish" /\ dmSeen[k] >= dmLimit[k] IN
    /\ dmInit = "yes" => dmLast.shown = dmLast.asked.shown /\ (dmLast.shown => dmLast.type = dmLast.asked.type)
    /\ dmInit = "yes" /\ (Over("err") \/ Over("warn")) => dmEnded = "finish" \/ dmPending
    /\ dmPending => Over("err") \/ Over("warn")
    /\ dmCount = dmSeen
=============================================================================
