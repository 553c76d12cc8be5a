----------------------------- MODULE MCStartup -----------------------------
(* Small instances of Startup for TLC: two paths, two disks, configurations *)
(* as an administrator edits them and every way one can be refused.        *)
EXTENDS Startup, TLC

DiskAt(serial, path, label) ==
  [label |-> label, serial |-> serial, path |-> path, window |-> 2, threshold |-> "some"]

Mail == [host |-> "smtp", port |-> 587, from |-> "ndm", to |-> {"ops"}, method |-> "XOAUTH2",
         sections |-> {"oauth"}, empty |-> {}, params |-> {"prompt"}]
ConfigOf(disks) ==
  [flaws |-> {}, schema |-> 1, host |-> "box", disks |-> disks, rank |-> 5, mail |-> Mail]

One == ConfigOf(<<DiskAt("s1", "p1", "a")>>)
Renamed == ConfigOf(<<DiskAt("s1", "p1", "b")>>)
Both == ConfigOf(<<DiskAt("s1", "p1", "a"), DiskAt("s2", "p2", "a")>>)
Replaced == ConfigOf(<<DiskAt("s2", "p1", "a")>>)
Plain == [One EXCEPT !.mail.method = "PLAIN", !.mail.sections = {"plain"}]

Flawed ==
  {[One EXCEPT !.flaws = {flaw}] : flaw \in {"checksum", "syntax", "missing field"}}
  \union {[One EXCEPT !.disks[1].window = w] : w \in {0, 3, 9}}
  \union {[One EXCEPT !.disks[1].threshold = "nan"], [One EXCEPT !.disks[1].label = Blank],
          [One EXCEPT !.disks[1].path = "elsewhere"],
          ConfigOf(<<DiskAt("s1", "p1", "a"), DiskAt("s2", "p1", "b")>>), ConfigOf(<<>>)}
  \union {[One EXCEPT !.schema = 2], [One EXCEPT !.rank = 0], [One EXCEPT !.rank = 9]}
  \union {[One EXCEPT !.mail.to = {}], [One EXCEPT !.mail.port = 0],
          [One EXCEPT !.mail.sections = {"oauth", "plain"}], [One EXCEPT !.mail.params = {"state"}],
          [Plain EXCEPT !.mail.empty = {"password"}]}

MCConfigs == {One, Renamed, Both, Replaced} \union Flawed

Newer == [Fresh EXCEPT !.version = 2]
Unversioned == [Fresh EXCEPT !.globals = {"devs"}]
Altered == [WithGlobals(Fresh) EXCEPT !.canonical = FALSE]
MCSymmetry == Permutations(Procs) \union Permutations(Numbers)

Empty == WithGlobals(Fresh)

MCFiles == {Fresh, Newer, Unversioned, Altered, Empty}
=============================================================================
