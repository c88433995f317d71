------------------------------ MODULE MCParts ------------------------------
(***************************************************************************)
(* The parts whose safety is checked on their own: a rule's hysteresis,    *)
(* the enrolment of agents, the admission of their requests, the           *)
(* resolver's cache, logins and scopes, the limits on load, the wire       *)
(* format, the SmokePing import and the stored tree.  They share nothing   *)
(* the modules look at, so one of them runs in each behaviour, from its    *)
(* own initial states, and the others stand still in one state.            *)
(***************************************************************************)
EXTENDS Hysteresis, Enrolment, Admission, ResolverCache, Access, TreeLimits, WireBatch,
        MCSmokePing, MCTargetTree

CONSTANTS
  top, left, leaf,          \* Access: nodes
  ann, bob, staff, admins   \* Access: users, one browser each, and groups

-----------------------------------------------------------------------------
(* Access: left may be moved or stay below the top, leaf hangs below it; an *)
(* admin, and a user of one group.                                          *)

Parents == (top :> Outside) @@ (left :> top) @@ (leaf :> left)

Memberships == (ann :> {staff}) @@ (bob :> {admins})

-----------------------------------------------------------------------------
(* TreeLimits: a root that says it all, a group that inherits it, and an    *)
(* enabled host below that sends two pings where the ceiling allows one.    *)

Load(interval, pingsSent, size, timeout) ==
  [interval |-> interval, pings |-> pingsSent, size |-> size, timeout |-> timeout]

Hanging(parent, mode, load) ==
  [parent |-> parent, mode |-> mode, interval |-> load.interval, pings |-> load.pings,
   size |-> load.size, timeout |-> load.timeout]

Planned0 ==
  (0 :> Hanging(NONE, "group", Load(2, 1, 1, 1))) @@
  (1 :> Hanging(0, "group", Load(NONE, NONE, NONE, NONE))) @@
  (2 :> Hanging(1, "enabled", Load(NONE, 2, NONE, NONE)))

Ceilings == Load(2, 2, 1, 2)

-----------------------------------------------------------------------------
(* WireBatch: any two rows in one record batch, plain ones in two batches,  *)
(* and streams that are none.                                               *)

SchemaMessage == [kind |-> "schema"]
Records(s) == [kind |-> "records", rows |-> s]

AnyRow == [sent : 0..2, received : 0..2, samples : {<<>>, <<3>>, <<3, 1>>},
           series : {Absent, <<1, -1>>}]

PlainRow == [sent : {1}, received : {1, 2}, samples : {<<2>>}, series : {Absent}] \cup
            [sent : {1}, received : {2}, samples : {<<2, 2>>}, series : {Absent}]

Streams ==
  {<<SchemaMessage, Records(<<r, q>>)>> : r, q \in AnyRow} \cup
  {<<SchemaMessage, Records(<<r>>), Records(<<q>>)>> : r, q \in PlainRow} \cup
  {<<SchemaMessage, Records(<<r>>), Records(<<q, u>>)>> : r, q, u \in PlainRow} \cup
  {<<Records(<<>>), SchemaMessage>>, <<SchemaMessage, SchemaMessage>>,
   <<SchemaMessage, Records(<<>>), Records(<<>>), Records(<<>>)>>}

-----------------------------------------------------------------------------

VARIABLE part

Parts == {"hysteresis", "enrolment", "admission", "resolver", "access", "limits", "wire",
          "smokeping", "tree"}

PartsInit ==
  /\ part \in Parts
  /\ Init /\ EnrolInit /\ AdmissionInit /\ AccessInit /\ TreeInit
  /\ part # "resolver" => record = CHOOSE v \in Addresses : TRUE
  /\ ResolverInit
  /\ IF part = "limits" THEN LimitsInit
                        ELSE nodes = [n \in {Root} |-> PlannedTree[n]] /\ legacy = nodes /\ treeChanges = 0
  /\ part # "wire" => wire = <<SchemaMessage, SchemaMessage>> /\ whole = TRUE
  /\ WireInit
  /\ part # "smokeping" => files = ("top" :> HostFirst) @@ ("two" :> SecondFile) /\ alsoIPv6 = FALSE
  /\ ImportInit

PartsNext ==
  /\ UNCHANGED part
  /\ IF part = "hysteresis" THEN Next ELSE UNCHANGED vars
  /\ IF part = "enrolment" THEN EnrolNext ELSE UNCHANGED enrolVars
  /\ IF part = "admission" THEN AdmissionNext ELSE UNCHANGED admissionVars
  /\ IF part = "resolver" THEN ResolverNext ELSE UNCHANGED resolverVars
  /\ IF part = "access" THEN AccessNext ELSE UNCHANGED accessVars
  /\ IF part = "limits" THEN LimitsNext ELSE UNCHANGED limitVars
  /\ IF part = "wire" THEN WireNext ELSE UNCHANGED wireVars
  /\ IF part = "smokeping" THEN ImportNext ELSE UNCHANGED importVars
  /\ IF part = "tree" THEN TreeNext ELSE UNCHANGED treeVars

partsVars ==
  <<part, vars, enrolVars, admissionVars, resolverVars, accessVars,
    limitVars, wireVars, importVars, treeVars>>

PartsSpec == PartsInit /\ [][PartsNext]_partsVars
=============================================================================
