---------------------------- MODULE MCSmokePing ----------------------------
(* Small installations of SmokePing for TLC: three lines of any kind,      *)
(* behind a plain start or behind one that declares probes, and a second    *)
(* file to include, which includes the first.                               *)
EXTENDS SmokePing, TLC

TypeOfModule(m) == IF m \in {"FPing", None} THEN "icmp" ELSE IF m = "DNS" THEN "dns" ELSE None

SecondName(n) == n \o "-v6"

(* A host that is continued is no host, but by a blank line. *)
JoinedValue(v, l) == IF l.kind = "blank" THEN v ELSE "overlay"

AnyNames == {"a", "b", "c", "a-v6", "my", "DNS", "EVE"}

Section(s)   == [kind |-> "section", section |-> s]
NodeLine(d, n) == [kind |-> "node", depth |-> d, name |-> n]
KeyLine(k, v) == [kind |-> "key", key |-> k, value |-> v, more |-> FALSE]
Include(f)   == [kind |-> "include", file |-> f]

AnyLine ==
  {Section("other"), NodeLine(1, "a"), NodeLine(2, "b"), NodeLine(1, "a-v6"), Include("two"),
   KeyLine("host", "h"), KeyLine("host", "DYNAMIC"), KeyLine("probe", "my"),
   KeyLine("probe", "six"), KeyLine("probe", None), [KeyLine("host", "h") EXCEPT !.more = TRUE]}

SecondFile ==
  <<KeyLine("probe", "FPing"), [kind |-> "text"], Include("top"), NodeLine(1, "c"),
    KeyLine("host", "10.0.0.1"), KeyLine("step", "bad"), KeyLine("alerts", "x")>>

ProbesFirst ==
  <<Section("probes"), NodeLine(1, "DNS"), NodeLine(1, "DNS"), NodeLine(2, "my"),
    NodeLine(1, "EVE"), KeyLine("host", "x"), Section("targets"), [kind |-> "blank"],
    NodeLine(1, "a")>>

HostFirst == <<KeyLine("step", "60"), NodeLine(1, "a"), KeyLine("host", "h")>>

Installations ==
  {("top" :> (start \o s)) @@ ("two" :> SecondFile) :
     s \in SeqOf(AnyLine, 3), start \in {ProbesFirst, HostFirst}}
=============================================================================
