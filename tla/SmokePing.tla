----------------------------- MODULE SmokePing -----------------------------
(***************************************************************************)
(* The import of a SmokePing installation (smokeping.go): its files, read  *)
(* into one list of lines with the included ones in their place; the       *)
(* lines, taken one by one into nodes by depth, sections and continued     *)
(* values; and the nodes, made into the targets of a file of ours.  The    *)
(* operator sees the targets and the warnings.                             *)
(*                                                                         *)
(* Of a node's keys these stand for all: host; probe, which comes down;    *)
(* step, a number; and alerts, which has no counterpart here.              *)
(***************************************************************************)
EXTENDS Naturals, Sequences, SequencesExt

CONSTANTS
  Installs,       \* installations: sequences of lines, by file
  TopFile,        \* the file that is imported
  NodeNames,      \* what nodes are called
  Second(_),      \* the name of a node's second target, for the other family
  Joined(_, _),   \* what a value and the line that continues it come to
  TypeOf(_),      \* what a module measures, or None if that is not known
  HostNames,      \* hosts that are names; others are addresses
  Sixes,          \* addresses and probes that are IPv6 ones
  None,           \* no value, which an empty one is too
  MaxFiles, MaxNesting   \* what one import may read

IsLine(l) ==
  \/ l.kind \in {"blank", "text", "include"}
  \/ l.kind = "section" /\ l.section \in {"targets", "probes", "other"}
  \/ l.kind = "node" /\ l.depth \in Nat \ {0} /\ l.name \in NodeNames
  \/ l.kind = "key" /\ l.more \in BOOLEAN

ASSUME ImportAssumption ==
  /\ \A install \in Installs :
       /\ TopFile \in DOMAIN install
       /\ \A f \in DOMAIN install : /\ Len(install[f]) \in Nat /\ DOMAIN install[f] = 1..Len(install[f])
                                    /\ \A i \in DOMAIN install[f] : IsLine(install[f][i])
  /\ \A n, m \in NodeNames : Second(n) = Second(m) => n = m

VARIABLES
  files,        \* the installation
  alsoIPv6,     \* names are imported for both address families
  step,         \* "read", "parse", "convert", "done", "failed"
  openFiles,      \* the files under way, innermost first: [file, next]
  opened,       \* files read so far
  lines,        \* all the lines, in order
  place,        \* of the line to parse, or the node to convert, next
  section, branch, topKeys, spNodes, modules, probeLine,   \* what the parser has
  lastKey,      \* the key a value was last given to, of the top of the branch
  warned,       \* what there is a warning about
  imported,     \* the result, by path
  told          \* ghost: what the installation says of its nodes

readerVars == <<openFiles, opened, lines>>
parserVars == <<section, branch, topKeys, spNodes, modules, probeLine, lastKey>>
importVars == <<files, alsoIPv6, step, place, readerVars, parserVars, warned, imported, told>>

NoKeys == [k \in {} |-> None]

Amend(f, k, v) == [j \in DOMAIN f \cup {k} |-> IF j = k THEN v ELSE f[j]]

NumberOf(v) == IF v = "bad" THEN None ELSE v

KeyOf(keys, k) == IF k \in DOMAIN keys THEN keys[k].value ELSE None

-----------------------------------------------------------------------------
(* Reading.                                                                *)

OnTheWay(f) == \E i \in DOMAIN openFiles : openFiles[i].file = f

(* An include of a file that is being read is left out, with a warning; one *)
(* file too many, or one too deep, fails the import.  A file read to its    *)
(* end may be included again.                                               *)
ReadLine ==
  /\ step = "read" /\ openFiles # <<>>
  /\ LET f    == Head(openFiles).file
         i    == Head(openFiles).next
         text == files[f]
         rest == <<[file |-> f, next |-> i + 1]>> \o Tail(openFiles)
     IN  \/ /\ i > Len(text)
            /\ openFiles' = Tail(openFiles)
            /\ step' = IF openFiles' = <<>> THEN "parse" ELSE "read"
            /\ UNCHANGED <<opened, lines, warned>>
         \/ /\ i <= Len(text) /\ text[i].kind # "include"
            /\ lines' = Append(lines, text[i])
            /\ openFiles' = rest
            /\ UNCHANGED <<step, opened, warned>>
         \/ /\ i <= Len(text) /\ text[i].kind = "include" /\ OnTheWay(text[i].file)
            /\ warned' = warned \cup {<<"@include", text[i].file>>}
            /\ openFiles' = rest
            /\ UNCHANGED <<step, opened, lines>>
         \/ /\ i <= Len(text) /\ text[i].kind = "include" /\ ~OnTheWay(text[i].file)
            /\ IF Len(openFiles) > MaxNesting \/ opened = MaxFiles \/ text[i].file \notin DOMAIN files
               THEN step' = "failed" /\ UNCHANGED <<openFiles, opened>>
               ELSE /\ openFiles' = <<[file |-> text[i].file, next |-> 1]>> \o rest
                    /\ opened' = opened + 1
                    /\ UNCHANGED step
            /\ UNCHANGED <<lines, warned>>
  /\ UNCHANGED <<files, alsoIPv6, place, parserVars, imported, told>>

-----------------------------------------------------------------------------
(* Parsing.                                                                *)

(* A node is complete when the next one, or another section, begins; in the *)
(* variant with a fault only the next node completes it.                    *)
Completed == IF branch = <<>> THEN spNodes ELSE Append(spNodes, Last(branch))

LeftOut == spNodes

AtSection == Completed

KeysHere == IF branch = <<>> THEN topKeys ELSE Last(branch).keys

HereIs == IF branch = <<>> THEN <<>> ELSE Last(branch).path

(* The keys of the innermost node, or those before the first.               *)
PutKey(k, v) ==
  IF branch = <<>> THEN topKeys' = Amend(topKeys, k, v) /\ UNCHANGED branch
  ELSE branch' = [branch EXCEPT ![Len(branch)].keys = Amend(@, k, v)] /\ UNCHANGED topKeys

Said(k, v) == [path |-> HereIs, key |-> k, value |-> v]

IsContinued == lastKey # None /\ KeysHere[lastKey].more

(* The line after a backslash belongs to the value, whatever it is.         *)
Continue(l) ==
  /\ LET sofar == KeysHere[lastKey].value
         value == Joined(sofar, l)
     IN  /\ PutKey(lastKey, [value |-> value, more |-> l.kind = "key" /\ l.more])
         /\ told' = (told \ {Said(lastKey, sofar)}) \cup {Said(lastKey, value)}
  /\ UNCHANGED <<section, spNodes, modules, probeLine, lastKey, warned, step>>

EnterSection(l) ==
  /\ l.kind = "section"
  /\ section' = l.section
  /\ spNodes' = AtSection
  /\ branch' = <<>> /\ probeLine' = <<>> /\ lastKey' = None
  /\ UNCHANGED <<topKeys, modules, warned, step, told>>

(* A probe is of the module its first level names. *)
DefineProbe(l) ==
  /\ l.kind = "node" /\ section = "probes"
  /\ LET above  == SubSeq(probeLine, 1, IF l.depth - 1 < Len(probeLine) THEN l.depth - 1 ELSE Len(probeLine))
         module == IF above = <<>> THEN l.name ELSE above[1]
     IN  /\ probeLine' = Append(above, module)
         /\ modules' = Amend(modules, l.name, module)
  /\ UNCHANGED <<section, branch, topKeys, spNodes, lastKey, warned, step, told>>

BeginNode(l) ==
  /\ l.kind = "node" /\ section = "targets"
  /\ IF l.depth > Len(branch) + 1
     THEN step' = "failed" /\ UNCHANGED <<spNodes, branch, lastKey>>
     ELSE LET above == SubSeq(branch, 1, l.depth - 1)
              path  == (IF above = <<>> THEN <<>> ELSE Last(above).path) \o <<l.name>>
          IN  /\ spNodes' = Completed
              /\ branch' = Append(above, [path |-> path, keys |-> NoKeys])
              /\ lastKey' = None
              /\ UNCHANGED step
  /\ UNCHANGED <<section, topKeys, modules, probeLine, warned, told>>

GiveKey(l) ==
  /\ l.kind = "key" /\ section = "targets"
  /\ PutKey(l.key, [value |-> l.value, more |-> l.more])
  /\ lastKey' = l.key
  /\ told' = told \cup {Said(l.key, l.value)}
  /\ UNCHANGED <<section, spNodes, modules, probeLine, warned, step>>

(* Comments, blank lines, what is in a section that is not read, and, with  *)
(* a warning, what is neither a node nor a key.                             *)
Skip(l) ==
  /\ \/ l.kind \in {"blank", "text"}
     \/ l.kind = "key" /\ section # "targets"
     \/ l.kind = "node" /\ section = "other"
  /\ warned' = IF l.kind = "text" /\ section = "targets" THEN warned \cup {<<"line">>} ELSE warned
  /\ UNCHANGED <<parserVars, step, told>>

ParseLine ==
  /\ step = "parse" /\ place <= Len(lines)
  /\ LET l == lines[place] IN
     IF IsContinued THEN Continue(l)
     ELSE EnterSection(l) \/ DefineProbe(l) \/ BeginNode(l) \/ GiveKey(l) \/ Skip(l)
  /\ place' = place + 1
  /\ UNCHANGED <<files, alsoIPv6, readerVars, imported>>

(* The keys before the first node are the defaults of the whole.            *)
EndOfLines ==
  /\ step = "parse" /\ place > Len(lines)
  /\ spNodes' = Completed /\ branch' = <<>>
  /\ imported' = [root \in {<<>>} |-> [host |-> None, family |-> None, type |-> None,
                                        interval |-> NumberOf(KeyOf(topKeys, "step"))]]
  /\ warned' = IF KeyOf(topKeys, "step") = "bad" THEN warned \cup {<<>>} ELSE warned
  /\ step' = "convert" /\ place' = 1
  /\ UNCHANGED <<files, alsoIPv6, readerVars, section, topKeys, modules, probeLine, lastKey, told>>

-----------------------------------------------------------------------------
(* Converting.                                                             *)

(* The probe of a node, worked out in the order of the file: its own, an     *)
(* empty one too, or its parent's, the last to have had that path.          *)
WithProbeOf(n, above) ==
  Amend(above, n.path, IF "probe" \in DOMAIN n.keys THEN n.keys["probe"].value
                       ELSE IF Front(n.path) \in DOMAIN above THEN above[Front(n.path)] ELSE None)

ProbesUpTo ==
  LET upTo[i \in 0..Len(spNodes)] ==
        IF i = 0 THEN [root \in {<<>>} |-> KeyOf(topKeys, "probe")]
        ELSE WithProbeOf(spNodes[i], upTo[i - 1])
  IN  upTo

ProbeAt == ProbesUpTo[Len(spNodes)]

ModuleAt(probe) == IF probe \in DOMAIN modules THEN modules[probe] ELSE probe

ImportedType(probe) == IF TypeOf(ModuleAt(probe)) = None THEN "icmp" ELSE TypeOf(ModuleAt(probe))

(* A group has no host and measures nothing, but its settings come down.    *)
EntryOf(n, family) ==
  LET host == KeyOf(n.keys, "host") IN
  [host |-> host, family |-> IF host = None THEN None ELSE family,
   type |-> IF host = None THEN None ELSE ImportedType(ProbeAt[n.path]),
   interval |-> NumberOf(KeyOf(n.keys, "step"))]

(* The path a name is imported under a second time. *)
V6(path) == Append(Front(path), Second(Last(path)))

FamilyOf(host, probe) == IF {host, IF host \in HostNames THEN probe ELSE None} \cap Sixes # {}
                         THEN "v6" ELSE "v4"

Twice(host, probe) == alsoIPv6 /\ host \in HostNames /\ FamilyOf(host, probe) = "v4"

(* Hosts that are not one host are left out, with a warning (as is an irtt  *)
(* target that graphs a derived figure, not modelled here); there are       *)
(* warnings for what has no counterpart and for a probe that is not known.  *)
Unsupported == {"DYNAMIC", "overlay"}

HasWarning(n) ==
  LET host == KeyOf(n.keys, "host") IN
  \/ "alerts" \in DOMAIN n.keys \/ KeyOf(n.keys, "step") = "bad"
  \/ host \in Unsupported
  \/ host # None /\ TypeOf(ModuleAt(ProbeAt[n.path])) = None

Convert ==
  /\ step = "convert" /\ place <= Len(spNodes)
  /\ LET n     == spNodes[place]
         host  == KeyOf(n.keys, "host")
         probe == ProbeAt[n.path]
         first == IF Twice(host, probe) THEN Amend(imported, V6(n.path), EntryOf(n, "v6")) ELSE imported
     IN  /\ imported' = IF host \in Unsupported THEN imported
                        ELSE Amend(first, n.path, EntryOf(n, FamilyOf(host, probe)))
         /\ warned' = IF HasWarning(n) THEN warned \cup {n.path} ELSE warned
  /\ place' = place + 1
  /\ UNCHANGED <<files, alsoIPv6, step, readerVars, parserVars, told>>

(* An import of nothing fails. *)
Finish ==
  /\ step = "convert" /\ place > Len(spNodes)
  /\ step' = IF DOMAIN imported = {<<>>} THEN "failed" ELSE "done"
  /\ UNCHANGED <<files, alsoIPv6, place, readerVars, parserVars, warned, imported, told>>

ImportInit ==
  /\ files \in Installs /\ alsoIPv6 \in BOOLEAN
  /\ step = "read" /\ place = 1
  /\ openFiles = <<[file |-> TopFile, next |-> 1]>> /\ opened = 1 /\ lines = <<>>
  /\ section = "targets" /\ branch = <<>> /\ topKeys = NoKeys /\ spNodes = <<>>
  /\ modules = NoKeys /\ probeLine = <<>> /\ lastKey = None
  /\ warned = {} /\ imported = NoKeys /\ told = {}

ImportNext == ReadLine \/ ParseLine \/ EndOfLines \/ Convert \/ Finish

ImportSpec == ImportInit /\ [][ImportNext]_importVars

-----------------------------------------------------------------------------
(* The properties.                                                         *)

Says(path, k) == {t.value : t \in {u \in told : u.path = path /\ u.key = k}}

(* The probe that holds at a path: the one said nearest above it. *)
ProbeSaid(path) ==
  LET saying  == {i \in 0..Len(path) : Says(SubSeq(path, 1, i), "probe") # {}}
      nearest == CHOOSE i \in saying : \A j \in saying : j <= i
  IN  IF saying = {} THEN None ELSE CHOOSE v \in Says(SubSeq(path, 1, nearest), "probe") : TRUE

(* A host is imported as it is described, under each family it is asked     *)
(* for, or there is a warning about it.                                     *)
Arrives(path, host, family, probe) ==
  /\ path \in DOMAIN imported
  /\ imported[path].host = host /\ imported[path].family = family
  /\ imported[path].type = ImportedType(probe)

IsAccountedFor(path, host) ==
  LET probe == ProbeSaid(path) IN
  IF host \in Unsupported THEN path \in warned
  ELSE /\ Arrives(path, host, FamilyOf(host, probe), probe)
       /\ Twice(host, probe) => Arrives(V6(path), host, "v6", probe)

HostLines == {t \in told : t.path # <<>> /\ t.key = "host" /\ t.value # None}

(* A node, or one above it, begun or told something twice. *)
IsRepeated(path) ==
  \E i \in 0..Len(path) :
    LET p == SubSeq(path, 1, i) IN
    \/ \E k, j \in DOMAIN spNodes : k # j /\ spNodes[k].path = p /\ spNodes[j].path = p
    \/ \E key \in {"host", "probe"} : \E v, w \in Says(p, key) : v # w

(* A node that has the name another's second family gets, or the other. *)
ClashesByFamily(path) ==
  \E k \in DOMAIN spNodes : V6(spNodes[k].path) = path \/ spNodes[k].path = V6(path)

(* Whatever way an installation is spread over files, sections and levels,  *)
(* each of its hosts arrives with the probe that holds where it is, or is   *)
(* warned about: an import "that quietly loses configuration is worse than  *)
(* one that refuses it out loud" (smokeping.go:39-40).  It does lose one    *)
(* quietly in two cases, which are excepted: a node begun twice, or given   *)
(* two values of one key, keeps the last; and of a host named as another's  *)
(* second family will be, and that other, one overwrites the other.         *)
HostsAreAccountedFor ==
  step = "done" =>
    \A t \in HostLines :
      IsRepeated(t.path) \/ ClashesByFamily(t.path) \/ IsAccountedFor(t.path, t.value)
=============================================================================
