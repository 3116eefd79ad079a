------------------------------ MODULE OSTables ------------------------------
(***************************************************************************)
(* The tables of the guest the agent reads (core/filesystem_utils.go) and  *)
(* what it makes of them: the mount points FreezeFileSystems goes through, *)
(* and the owner and group of SetFileOwner (core/filesystem.go).  A table  *)
(* is a sequence of lines, read afresh for every request and line by line. *)
(* The files can be opened and read, and chown(2) itself is not refused.   *)
(***************************************************************************)
EXTENDS Integers, Sequences, SequencesExt

CONSTANTS
    Text,        \* what a request may name as owner or group
    Number,      \* Number[t]: the number t is written as, for texts strconv.Atoi accepts
    IdSpan,      \* 2^32 in the code: ids wrap at this
    Accounts,    \* the contents /etc/passwd and /etc/group may have
    Mounts       \* the contents /proc/self/mounts may have

\* A line of passwd or group; ignored stands for too few fields, an empty name
\* or one that begins with + or -, and parses for what strconv.Atoi says of its
\* number, which may be negative.
Account == [name: Text, ignored: BOOLEAN, parses: BOOLEAN, id: Int]

\* A line of mounts.  kind is what the source is: a device node, a symbolic
\* link to one, a link to a dm- device, a loop device, not a path ("proc"), or a
\* path that is gone.  target is the base name a link leads to.
MountKind == {"device", "link", "dm", "loop", "virtual", "gone"}
MountLine == [source: STRING, kind: MountKind, target: STRING, network: BOOLEAN, file: Nat]

ASSUME TablesAssumption ==
    /\ IdSpan \in Nat \ {0}
    /\ DOMAIN Number \subseteq Text /\ \A t \in DOMAIN Number : Number[t] \in Int
    /\ \A a \in Accounts : a \in Seq(Account)
    /\ \A m \in Mounts : m \in Seq(MountLine)

Table == {"passwd", "group", "mounts"}

VARIABLES
    job,     \* the request that is being answered: "none", "chown" or "mounts"
    who,     \* who[1], who[2]: the owner and group it names
    open,    \* the table it is reading, or "none"
    text,    \* text[f]: the contents of f when it was opened
    pos,     \* how many lines of the open table were read
    names,   \* names[f]: the map from names to ids made of f
    list,    \* mpoints
    answer   \* [ok, uid, gid]: how the request came out, with the owner and group
             \* the file then has

tablesVars == <<job, who, open, text, pos, names, list, answer>>

\* A group may be left out.
GroupText == Text \cup {""}
Nobody == <<"", "">>

NoNames == [t \in {} |-> 0]
NoAnswer == [ok |-> FALSE, uid |-> 0, gid |-> 0]

TablesInit ==
    /\ job = "none" /\ who = Nobody /\ open = "none" /\ pos = 0
    /\ text = [f \in Table |-> <<>>]
    /\ names = [f \in {"passwd", "group"} |-> NoNames]
    /\ list = <<>>
    /\ answer = NoAnswer

OpenTable(f, lines) == open' = f /\ text' = [text EXCEPT ![f] = lines] /\ pos' = 0

\* The line scanner.Scan has come to.
Line == text[open][pos + 1]
AtEnd == pos = Len(text[open])

Return(a) == open' = "none" /\ answer' = a

-----------------------------------------------------------------------------
(* GetOSUsers, GetOSGroups and SetFileOwner *)

\* The client's OWNER:GROUP; "alice:" is alice and her namesake group.
GroupOf(owner, group) == IF group = "" THEN owner ELSE group

SetFileOwner(o, g, lines) ==
    /\ job = "none"
    /\ job' = "chown" /\ who' = <<o, GroupOf(o, g)>>
    /\ OpenTable("passwd", lines)
    /\ UNCHANGED <<names, list, answer>>

\* names[parts[0]] = uint32(id): the last line wins.
Put(m, t, id) == [x \in DOMAIN m \cup {t} |-> IF x = t THEN id % IdSpan ELSE m[x]]

\* One line; a number that does not parse ends the request.
ReadAccount ==
    /\ open \in {"passwd", "group"} /\ ~AtEnd
    /\ pos' = pos + 1
    /\ names' = IF Line.ignored \/ ~Line.parses THEN names
                ELSE [names EXCEPT ![open] = Put(@, Line.name, Line.id)]
    /\ IF ~Line.ignored /\ ~Line.parses THEN Return(NoAnswer) ELSE UNCHANGED <<open, answer>>
    /\ UNCHANGED <<job, who, text, list>>

\* GetOSGroups comes after GetOSUsers.
OpenGroup(lines) ==
    /\ open = "passwd" /\ AtEnd
    /\ OpenTable("group", lines)
    /\ UNCHANGED <<job, who, names, list, answer>>

\* Seeded bug: a number is tried before the table.
ResolveNumberFirst(m, t) ==
    IF t \in DOMAIN Number THEN {Number[t]}
    ELSE IF t \in DOMAIN m THEN {m[t]}
    ELSE {}

\* The table first, then strconv.Atoi; no id if neither knows the text.
Resolve(m, t) ==
    IF t \in DOMAIN m THEN {m[t]}
    ELSE IF t \in DOMAIN Number THEN {Number[t]}
    ELSE {}

\* chown(2) takes a 32-bit id, and the one with all bits set (-1) to mean that
\* the file keeps the owner or group it has.
Kept == -1
Owner(id) == IF id % IdSpan = IdSpan - 1 THEN Kept ELSE id % IdSpan

\* Both texts are resolved, and the file is given to them.
Chown ==
    /\ open = "group" /\ AtEnd
    /\ \/ \E u \in Resolve(names["passwd"], who[1]), g \in Resolve(names["group"], who[2]) :
             Return([ok |-> TRUE, uid |-> Owner(u), gid |-> Owner(g)])
       \/ /\ {} \in {Resolve(names["passwd"], who[1]), Resolve(names["group"], who[2])}
          /\ Return(NoAnswer)
    /\ UNCHANGED <<job, who, text, pos, names, list>>

-----------------------------------------------------------------------------
(* GetMountPoints *)

GetMountPoints(lines) ==
    /\ job = "none"
    /\ job' = "mounts"
    /\ OpenTable("mounts", lines)
    /\ UNCHANGED <<who, names, list, answer>>

\* Seeded bug: the duplicates are looked for among the mount points.
PresentFile(l) == \E i \in DOMAIN list : list[i].file = l.file

\* Whether the source is in the list already, by the name it was listed under.
Present(l) == \E i \in DOMAIN list : list[i].source = l.source

Skipped(l) == Present(l) \/ l.kind \in {"virtual", "loop"} \/ l.network

\* A link is listed under the base name of what it leads to.
ListedAs(l) == IF l.kind = "link" THEN l.target ELSE l.source

\* One line; a source that cannot be looked at ends the request.
ReadMount ==
    /\ open = "mounts" /\ ~AtEnd
    /\ pos' = pos + 1
    /\ list' = IF Skipped(Line) \/ Line.kind \in {"gone", "dm"} THEN list
               ELSE Append(list, [source |-> ListedAs(Line), file |-> Line.file])
    /\ IF ~Skipped(Line) /\ Line.kind = "gone" THEN Return(NoAnswer) ELSE UNCHANGED <<open, answer>>
    /\ UNCHANGED <<job, who, text, names>>

MountsRead ==
    /\ open = "mounts" /\ AtEnd
    /\ Return([NoAnswer EXCEPT !.ok = TRUE])
    /\ UNCHANGED <<job, who, text, pos, names, list>>

\* The next request starts from nothing.
Forget ==
    /\ job # "none" /\ open = "none"
    /\ job' = "none" /\ who' = Nobody /\ pos' = 0
    /\ text' = [f \in Table |-> <<>>]
    /\ names' = [f \in {"passwd", "group"} |-> NoNames]
    /\ list' = <<>> /\ answer' = NoAnswer
    /\ UNCHANGED open

TablesNext ==
    \/ \E a \in Accounts :
         (\E o \in Text, g \in GroupText : SetFileOwner(o, g, a)) \/ OpenGroup(a)
    \/ ReadAccount \/ Chown
    \/ \E m \in Mounts : GetMountPoints(m)
    \/ ReadMount \/ MountsRead
    \/ Forget

TablesSpec == TablesInit /\ [][TablesNext]_tablesVars

-----------------------------------------------------------------------------
(* Properties *)

\* What a name stands for, said without the loop: the last line that names it
\* decides, and a number stands for itself if no line does, both as far as the
\* 32 bits go.
Valid(lines, t) == {i \in DOMAIN lines : ~lines[i].ignored /\ lines[i].name = t}

MeansId(lines, t, id) ==
    \/ \E i \in Valid(lines, t) :
          /\ \A j \in Valid(lines, t) : j <= i
          /\ id = Owner(lines[i].id % IdSpan)
    \/ Valid(lines, t) = {} /\ t \in DOMAIN Number /\ id = Owner(Number[t])

Readable(lines) == \A i \in DOMAIN lines : lines[i].ignored \/ lines[i].parses

Means(lines, t) == Valid(lines, t) # {} \/ t \in DOMAIN Number

\* SetFileOwner succeeds exactly when both files are readable to the last line
\* and both texts mean something, and then the file goes to who they mean; one
\* that means the id -1 succeeds too, and leaves the file where it was.
OwnerResolves ==
    job = "chown" /\ open = "none" =>
        /\ answer.ok =>
              /\ Readable(text["passwd"]) /\ MeansId(text["passwd"], who[1], answer.uid)
              /\ Readable(text["group"]) /\ MeansId(text["group"], who[2], answer.gid)
        /\ ~answer.ok =>
              \/ ~Readable(text["passwd"]) \/ ~Readable(text["group"])
              \/ ~Means(text["passwd"], who[1]) \/ ~Means(text["group"], who[2])

\* The lines of filesystems that can be frozen, and those of them the agent
\* freezes: it leaves out what is on a dm- or a loop device.
Freezable(lines) ==
    {i \in DOMAIN lines : lines[i].kind \in {"device", "link", "dm", "loop"} /\ ~lines[i].network}
Frozen(lines) == {i \in Freezable(lines) : lines[i].kind \in {"device", "link"}}

\* The list reaches every filesystem that can be frozen and is not on a dm- or a
\* loop device, by some mount point of it, has nothing that is not such a mount,
\* and has a device that is mounted by its own name once.
MountsCovered ==
    job = "mounts" /\ open = "none" /\ answer.ok =>
        LET lines == text["mounts"]
        IN  /\ \A i \in Frozen(lines) : \E k \in DOMAIN list :
                  list[k].source \in {lines[i].source, ListedAs(lines[i])}
            /\ \A k \in DOMAIN list : \E i \in Frozen(lines) :
                  list[k] = [source |-> ListedAs(lines[i]), file |-> lines[i].file]
            /\ \A k, l \in DOMAIN list :
                  k < l /\ list[k].source = list[l].source =>
                      \E i \in Frozen(lines) :
                          lines[i].kind = "link" /\ lines[i].target = list[l].source

\* What the help text of the client says of a freeze: the list it goes through
\* reaches every filesystem that can be frozen.
AllFreezableListed ==
    job = "mounts" /\ open = "none" /\ answer.ok =>
        \A i \in Freezable(text["mounts"]) : \E k \in DOMAIN list :
            list[k].source \in {text["mounts"][i].source, ListedAs(text["mounts"][i])}
=============================================================================
