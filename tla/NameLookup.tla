------------------------------ MODULE NameLookup ------------------------------
(***************************************************************************)
(* From a path name to an open object (libreiserfs/object.c, and the open  *)
(* and close of file.c and dir.c): directories are searched by the hash of *)
(* each component, symbolic links are followed by calling the search again *)
(* from within.  Reads of the device may fail.                             *)
(*                                                                         *)
(* A name is a sequence of components; one that begins with a separator    *)
(* is Blank at first, one that ends with it is Blank at last.  An object's *)
(* two ids are one number.  A stat item has the object's mode, the direct  *)
(* item of a link its text, a directory item its entries.                  *)
(***************************************************************************)
EXTENDS TreeLookup, SequencesExt

CONSTANTS
  Root,         \* the key of the root directory
  Nowhere,      \* what dirkey is before the first directory
  Generations,  \* 128: hashes are multiples, the rest numbers collisions
  HashOf,       \* what the filesystem's hash function makes of a name
  Cwd,          \* the working directory of the process
  Worlds,       \* the filesystems: [tree, items, stored]
  Names,        \* the names to open
  MaxNesting    \* how deep links are followed before the stack is used up

ASSUME GenerationsAssumption == Generations \in Nat /\ Generations > 2
ASSUME MaxNestingAssumption == MaxNesting \in Nat \ {0}

(* The components of names and texts.                                      *)
Blank == ""
Dot == "."
DotDot == ".."
Components == DOMAIN HashOf \cup {Blank, Dot, DotDot}

ASSUME NamesAssumption ==
  /\ HashOf \in [DOMAIN HashOf -> Nat]
  /\ Names \subseteq Seq(Components) \ {<<>>} /\ Cwd \in Seq(Components)
  /\ Root \in Nat /\ Nowhere \in Nat

(* What the lookup takes for granted of a filesystem: a search tree, where *)
(* every object has a stat and behind it the items that go with its mode,  *)
(* a link just one.                                                        *)
Beside(stat, item) ==
  \/ stat.mode = "dir" /\ item.type = DR
  \/ stat.mode = "lnk" /\ ~stat.large /\ item.type = DT /\ item.off = 1
     /\ item.text \in Seq(Components) \ {<<>>}
  \/ stat.mode = "reg" /\ item.type \in {IT, DT}
     /\ (item.off = 1 => item.type = IF stat.large THEN IT ELSE DT)

(* A directory item begins with its smallest offset, and those of one item *)
(* are smaller than those of the next.  No two names are equal.            *)
EntriesLaid(item, others) ==
  /\ item.entries \in Seq([name : Components \ {Blank}, off : Nat, obj : Nat]) \ {<<>>}
  /\ \A e \in Range(item.entries) :
       /\ item.off <= e.off
       /\ \A other \in others :
            /\ item.off < other.off => e.off < other.off
            /\ \A f \in Range(other.entries) : e.name = f.name => e = f

WorldLaid(w) ==
  LET contents == {w.stored[k] : k \in DOMAIN w.stored}
      Of(obj) == {item \in contents : item.obj = obj}
  IN  /\ w.stored \in Seq(contents) /\ SearchTree(w.tree, w.stored)
      /\ \A item \in contents :
           /\ item.type = SD <=> item.off = 0
           /\ \E stat \in Of(item.obj) :
                stat.type = SD /\ (item.type = SD \/ Beside(stat, item))
           /\ item.type = SD /\ item.mode = "lnk" => \E text \in Of(item.obj) : text.type = DT
           /\ item.type = DR => EntriesLaid(item, {d \in Of(item.obj) : d.type = DR})
      /\ \E item \in Of(Root) : item.type = SD /\ item.mode = "dir"

ASSUME WorldsAssumption == \A w \in Worlds : WorldLaid(w)

DotOffset == 1
DotDotOffset == 2
None == -1

VARIABLES
  world,   \* the filesystem
  stage,   \* "idle", "stat", "text", "name", "end", "kind", "open", "failed";
           \* "astray" when it goes on with a wrong node, "overflow"
  use,     \* "file", "link" or "dir": which function opens
  asked,   \* the absolute name
  frames,  \* calls of reiserfs_object_find_path: [rest, named, as_link]
  objkey,  \* object->key
  dirkey,  \* the directory in which object was found
  objpath, \* object->path
  unread   \* history: a read failed

namesVars == <<world, stage, use, asked, frames, objkey, dirkey, objpath, unread>>

fstree == world.tree
Top == frames[Len(frames)]
Uses == {"file", "link", "dir"}

(* reiserfs_fs_hash_value.                                                 *)
HashValue(name) ==
  CASE name = Dot -> DotOffset
    [] name = DotDot -> DotDotOffset
    [] HashOf[name] < Generations -> Generations
    [] OTHER -> HashOf[name] - (HashOf[name] % Generations)

(* strsep: what is before the next separator, and what is behind it; a     *)
(* string without a separator leaves nothing, not even an empty string.    *)
Strsep(rest) == [name |-> Head(rest), rest |-> Tail(rest)]

(* reiserfs_object_make_absolute_name.                                     *)
AbsoluteName(name) == IF name[1] = Blank THEN name ELSE Cwd \o name

Frame(name, as_link) == [rest |-> name, named |-> FALSE, as_link |-> as_link]

StatKey == Key(objkey, 0, SD)
StatPath == PathTo(fstree, StatKey, fstree.height, 4)
HasStat == Found(fstree, StatPath, StatKey, 4)
Mode == ItemAt(fstree, StatPath).mode

Idle ==
  /\ stage = "idle" /\ use = "file" /\ asked = <<>> /\ frames = <<>>
  /\ objkey = None /\ dirkey = None /\ objpath = PathClear /\ unread = FALSE

NamesInit == world \in Worlds /\ Idle

(* reiserfs_object_create, called by reiserfs_file_open, reiserfs_link_open *)
(* and reiserfs_dir_open.                                                  *)
ObjectCreate(name, how) ==
  /\ stage = "idle"
  /\ stage' = "stat" /\ use' = how
  /\ asked' = AbsoluteName(name)
  /\ frames' = <<Frame(AbsoluteName(name), how = "link")>>
  /\ objkey' = Root /\ dirkey' = Nowhere
  /\ UNCHANGED <<world, objpath, unread>>

(* NULL all the way up through the calls.                                  *)
Fail == stage' = "failed" /\ frames' = <<>>

(* A lookup that cannot read a node: the caller has the same NULL as for a *)
(* key that is not there.                                                  *)
SearchFails(key) ==
  /\ \E depth \in 0..(fstree.height - 1) : objpath' = PathTo(fstree, key, depth, 4)
  /\ unread' = TRUE

StatFails ==
  /\ stage \in {"stat", "end"}
  /\ SearchFails(StatKey)
  /\ Fail
  /\ UNCHANGED <<world, use, asked, objkey, dirkey>>

-----------------------------------------------------------------------------
(* One turn of the loop of reiserfs_object_find_path: the object's stat.   *)
(* The last component is told by there being no separator in the rest, and *)
(* so is the last but one, whose separator strsep has just overwritten.    *)
Terminator == Top.named /\ Len(Top.rest) <= 1

NoLink ==
  /\ stage = "stat" /\ HasStat /\ Mode \in {"dir", "reg", "lnk"}
  /\ Mode = "lnk" => Top.as_link /\ Terminator
  /\ objpath' = StatPath
  /\ dirkey' = objkey
  /\ stage' = "name"
  /\ UNCHANGED <<world, use, asked, frames, objkey, unread>>

NoObject ==
  /\ stage = "stat" /\ (HasStat => Mode \notin {"dir", "reg", "lnk"})
  /\ objpath' = StatPath
  /\ Fail
  /\ UNCHANGED <<world, use, asked, objkey, dirkey, unread>>

IsLink ==
  /\ stage = "stat" /\ HasStat /\ Mode = "lnk" /\ ~(Top.as_link /\ Terminator)
  /\ objpath' = StatPath
  /\ stage' = "text"
  /\ UNCHANGED <<world, use, asked, frames, objkey, dirkey, unread>>

(* reiserfs_object_link: the text is taken from the item behind the stat.  *)
AfterStat == objpath[fstree.height] + 2
HasNext == AfterStat <= Len(Leaf(fstree, objpath).items)
Text == Leaf(fstree, objpath).items[AfterStat].text

(* Slip: a relative link is searched from the link itself.                 *)
FollowHere ==
  /\ stage = "text" /\ HasNext
  /\ Leaf(fstree, objpath).items[AfterStat].type = DT /\ Text # <<Blank>>
  /\ objkey' = IF Text[1] = Blank THEN Root ELSE objkey
  /\ IF Len(frames) <= MaxNesting
     THEN stage' = "stat" /\ frames' = Append(frames, Frame(Text, TRUE))
     ELSE stage' = "overflow" /\ UNCHANGED frames
  /\ UNCHANGED <<world, use, asked, dirkey, objpath, unread>>

Follow ==
  /\ stage = "text" /\ HasNext
  /\ Leaf(fstree, objpath).items[AfterStat].type = DT /\ Text # <<Blank>>
  /\ objkey' = IF Text[1] = Blank THEN Root ELSE dirkey
  /\ IF Len(frames) <= MaxNesting
     THEN stage' = "stat" /\ frames' = Append(frames, Frame(Text, TRUE))
     ELSE stage' = "overflow" /\ UNCHANGED frames
  /\ UNCHANGED <<world, use, asked, dirkey, objpath, unread>>

NoText ==
  /\ stage = "text" /\ HasNext
  /\ Leaf(fstree, objpath).items[AfterStat].type # DT \/ Text = <<Blank>>
  /\ Fail
  /\ UNCHANGED <<world, use, asked, objkey, dirkey, objpath, unread>>

(* The stat is the last item of its leaf: what is behind it is taken for   *)
(* the head of an item, whatever it is.                                    *)
TextElsewhere ==
  /\ stage = "text" /\ ~HasNext
  /\ \/ Fail /\ UNCHANGED <<world, use, asked, objkey, dirkey, objpath, unread>>
     \/ stage' = "astray"
        /\ UNCHANGED <<world, use, asked, frames, objkey, dirkey, objpath, unread>>

-----------------------------------------------------------------------------
(* The next component; an empty one is skipped, but the object's stat is   *)
(* looked at again.                                                        *)
(* Slip: the empty component stays in front of the rest.                   *)
NextEmptyStays ==
  /\ stage = "name" /\ Top.rest # <<>> /\ Strsep(Top.rest).name = Blank
  /\ frames' = [frames EXCEPT ![Len(frames)].named = TRUE]
  /\ stage' = "stat"
  /\ UNCHANGED <<world, use, asked, objkey, dirkey, objpath, unread>>

NextEmpty ==
  /\ stage = "name" /\ Top.rest # <<>> /\ Strsep(Top.rest).name = Blank
  /\ frames' = [frames EXCEPT ![Len(frames)].rest = Strsep(@).rest, ![Len(frames)].named = TRUE]
  /\ stage' = "stat"
  /\ UNCHANGED <<world, use, asked, objkey, dirkey, objpath, unread>>

(* reiserfs_object_find_entry: the one item the key leads to is searched   *)
(* for the hash alone.                                                     *)
EntryKey(name) == Key(objkey, HashValue(name), DR)

EntryPath(name) ==
  LET to == PathTo(fstree, EntryKey(name), fstree.height, 4)
  IN  IF Found(fstree, to, EntryKey(name), 4) THEN to ELSE StepBack(to)

EntriesAt(to, hash) ==
  IF to[fstree.height] < Len(Leaf(fstree, to).items) /\ ItemAt(fstree, to).type = DR
  THEN {e \in Range(ItemAt(fstree, to).entries) : e.off = hash} ELSE {}

(* Slip: the key of the object becomes that of the entry only at the end of *)
(* the name.                                                               *)
NextNameLate ==
  /\ stage = "name" /\ Top.rest # <<>> /\ Strsep(Top.rest).name # Blank
  /\ LET name == Strsep(Top.rest).name
     IN  /\ objpath' = EntryPath(name)
         /\ \/ \E e \in EntriesAt(objpath', HashValue(name)) :
                 /\ objkey' = IF Strsep(Top.rest).rest = <<>> THEN e.obj ELSE objkey
                 /\ stage' = "stat"
                 /\ frames' = [frames EXCEPT ![Len(frames)].rest = Strsep(@).rest,
                                             ![Len(frames)].named = TRUE]
            \/ EntriesAt(objpath', HashValue(name)) = {} /\ Fail /\ UNCHANGED objkey
  /\ UNCHANGED <<world, use, asked, dirkey, unread>>

NextName ==
  /\ stage = "name" /\ Top.rest # <<>> /\ Strsep(Top.rest).name # Blank
  /\ LET name == Strsep(Top.rest).name
     IN  /\ objpath' = EntryPath(name)
         /\ \/ \E e \in EntriesAt(objpath', HashValue(name)) :
                 /\ objkey' = e.obj
                 /\ stage' = "stat"
                 /\ frames' = [frames EXCEPT ![Len(frames)].rest = Strsep(@).rest,
                                             ![Len(frames)].named = TRUE]
            \/ EntriesAt(objpath', HashValue(name)) = {} /\ Fail /\ UNCHANGED objkey
  /\ UNCHANGED <<world, use, asked, dirkey, unread>>

(* The search for the directory item cannot read a node: it goes on with   *)
(* the position in the last node that was read, or without any.            *)
NextNameFails ==
  /\ stage = "name" /\ Top.rest # <<>> /\ Strsep(Top.rest).name # Blank
  /\ SearchFails(EntryKey(Strsep(Top.rest).name))
  /\ \/ Fail
     \/ stage' = "astray" /\ UNCHANGED frames
  /\ UNCHANGED <<world, use, asked, objkey, dirkey>>

(* The end of a name: of a link's text, or of the one that was asked for.  *)
Return ==
  /\ stage = "name" /\ Top.rest = <<>>
  /\ stage' = IF Len(frames) = 1 THEN "end" ELSE "name"
  /\ frames' = Front(frames)
  /\ dirkey' = objkey
  /\ UNCHANGED <<world, use, asked, objkey, objpath, unread>>

-----------------------------------------------------------------------------
(* reiserfs_object_find_stat, and the checks of the function that opens.   *)
Accepted == IF use = "dir" THEN {"dir"} ELSE {"reg", "lnk"}

FindStat ==
  /\ stage = "end"
  /\ objpath' = StatPath
  /\ stage' = IF HasStat /\ Mode \in Accepted THEN "kind" ELSE "failed"
  /\ UNCHANGED <<world, use, asked, frames, objkey, dirkey, unread>>

(* reiserfs_file_rewind, reiserfs_dir_rewind: the first item of the data   *)
(* must be there.                                                          *)
FirstItemKey ==
  Key(objkey, 1, IF use = "dir" THEN DR
                 ELSE IF ItemAt(fstree, objpath).large THEN IT ELSE DT)

RewindOpened ==
  /\ stage = "kind"
  /\ LET to == PathTo(fstree, FirstItemKey, fstree.height, 4)
     IN  /\ objpath' = to
         /\ stage' = IF Found(fstree, to, FirstItemKey, 4) THEN "open" ELSE "failed"
  /\ UNCHANGED <<world, use, asked, frames, objkey, dirkey, unread>>

RewindFails ==
  /\ stage = "kind"
  /\ SearchFails(FirstItemKey)
  /\ Fail
  /\ UNCHANGED <<world, use, asked, objkey, dirkey>>

(* reiserfs_file_close, reiserfs_dir_close; a failed open has freed what it *)
(* had.                                                                    *)
Close ==
  /\ stage \in {"open", "failed"}
  /\ stage' = "idle" /\ use' = "file" /\ asked' = <<>> /\ frames' = <<>>
  /\ objkey' = None /\ dirkey' = None /\ objpath' = PathClear /\ unread' = FALSE
  /\ UNCHANGED world

NamesStep ==
  \/ StatFails \/ NextNameFails \/ RewindFails
  \/ NoLink \/ NoObject \/ IsLink
  \/ Follow \/ NoText \/ TextElsewhere
  \/ NextEmpty \/ NextName \/ Return
  \/ FindStat \/ RewindOpened

NamesNext ==
  \/ \E name \in Names, how \in Uses : ObjectCreate(name, how)
  \/ NamesStep
  \/ Close

NamesSpec == NamesInit /\ [][NamesNext]_namesVars /\ WF_namesVars(NamesStep)

-----------------------------------------------------------------------------
(* What a name stands for, read off the objects as they are stored.        *)
ItemsOf(obj) == {k \in DOMAIN world.stored : world.stored[k].obj = obj}
StatOf(obj) == {k \in ItemsOf(obj) : world.stored[k].type = SD}
ModeOf(obj) == IF StatOf(obj) = {} THEN "gone"
               ELSE world.stored[CHOOSE k \in StatOf(obj) : TRUE].mode
TextOf(obj) == world.stored[CHOOSE k \in ItemsOf(obj) : world.stored[k].type = DT].text
EntriesOf(obj) ==
  UNION {Range(world.stored[k].entries) : k \in {i \in ItemsOf(obj) : world.stored[i].type = DR}}

(* The text of a link is in the leaf of its stat.                          *)
TextNear(obj) ==
  LET to == PathTo(fstree, Key(obj, 0, SD), fstree.height, 4)
  IN  to[fstree.height] + 2 <= Len(Leaf(fstree, to).items)

Links == {obj \in {item.obj : item \in Range(world.stored)} : ModeOf(obj) = "lnk"}
AllEntries ==
  UNION {Range(item.entries) : item \in {i \in Range(world.stored) : i.type = DR}}
Ids == {Root} \cup {e.obj : e \in AllEntries}

(* Where a name leads to from a directory, as any Unix system resolves it, *)
(* in mode "file" and "dir" with a link at its end followed, in mode       *)
(* "link" not; "text" is the mode of the text of a link.  Unclear says that *)
(* something on the way is beyond the code: two names of a directory with  *)
(* one hash, a link whose text is not next to its stat, a link in the last *)
(* two components of a name that is not followed to its end.  links has    *)
(* where each link leads to from each directory.                           *)
Unclear == -2

Onward(links, at, name, k, mode) ==
  LET named == {e \in EntriesOf(at) : e.name = name[k]}
      alike == {e \in EntriesOf(at) : e.off = HashValue(name[k])}
      next == IF named = {} THEN None ELSE (CHOOSE e \in named : TRUE).obj
      last == mode \in {"link", "text"} /\ k >= Len(name) - 1
      kept == mode = "link" /\ k = Len(name)
  IN  IF name[k] = Blank \/ at \in {None, Unclear} THEN at
      ELSE IF named # alike THEN Unclear
      ELSE IF next \notin Links \/ kept THEN next
      ELSE IF last \/ ~TextNear(next) THEN Unclear
      ELSE links[<<at, next>>]

(* How far each number of components leads.                                *)
Walk(links, at, name, mode) ==
  LET Far[k \in 0..Len(name)] == IF k = 0 THEN at ELSE Onward(links, Far[k - 1], name, k, mode)
  IN  Far

LinkEnd(links, at, text) ==
  IF text = <<Blank>> THEN None
  ELSE Walk(links, IF text[1] = Blank THEN Root ELSE at, text, "text")[Len(text)]

(* The same through links that are nested so deep.                         *)
LinkEnds ==
  LET Ends[depth \in 0..MaxNesting] ==
        IF depth = 0 THEN [x \in Ids \X Links |-> Unclear]
        ELSE LET below == Ends[depth - 1]
             IN  [x \in Ids \X Links |-> LinkEnd(below, x[1], TextOf(x[2]))]
  IN  Ends

Meant == Walk(LinkEnds[MaxNesting], Root, asked, use)[Len(asked)]

Opens(obj) ==
  /\ ModeOf(obj) \in Accepted
  /\ \E k \in ItemsOf(obj) : world.stored[k].off = 1

(* A search that is open stands at the first item of an object of the kind *)
(* that was asked for, and each call but the outermost one is for a link's *)
(* text (object.c:359-397, file.c:44-58, dir.c:58-64).                     *)
NamesTypeOK ==
  /\ stage \in {"idle", "stat", "text", "name", "end", "kind", "open", "failed",
             "astray", "overflow"}
  /\ use \in Uses
  /\ Len(frames) <= MaxNesting + 1
  /\ \A i \in 2..Len(frames) : frames[i].as_link
  /\ stage = "open" =>
       /\ objpath[fstree.height] < Len(Leaf(fstree, objpath).items)
       /\ ItemAt(fstree, objpath).obj = objkey /\ ItemAt(fstree, objpath).off = 1
       /\ ModeOf(objkey) \in Accepted

(* Through every layout of the tree, and through links in any place: what  *)
(* is opened is the object the name stands for, and a name that stands for *)
(* one is not refused unless a read failed.  It holds for plain names only: *)
(* of two names with one hash the first is taken for both, a link whose    *)
(* text is in the next leaf is read from what lies behind its stat, and a  *)
(* link in the last two components of a link's text is not followed        *)
(* (object.c:333-397).                                                     *)
ResolvesRight ==
  /\ stage = "open" /\ Meant # Unclear => objkey = Meant
  /\ stage = "failed" /\ ~unread => ~Opens(Meant)
  /\ stage = "astray" /\ ~unread => Meant = Unclear

NamedBy(names) ==
  {e.obj : e \in {e \in AllEntries : \E name \in names \ {Blank} : e.off = HashValue(name)}}

(* The links a link's text may lead through, over every directory.         *)
Through == [l \in Links |-> NamedBy(Range(TextOf(l))) \cap Links]
ThroughItself ==
  LET Reach[n \in 0..Cardinality(Links)] ==
        IF n = 0 THEN Through
        ELSE [l \in Links |-> Reach[n - 1][l] \cup UNION {Through[m] : m \in Reach[n - 1][l]}]
  IN  \E l \in Links : l \in Reach[Cardinality(Links)][l]

(* A link whose text ends at a link: the code stops at the second one, and *)
(* a separator behind the name makes it search that link from itself.      *)
EndsAtLink == \E l \in Links : \E i \in DOMAIN TextOf(l) :
  LET text == TextOf(l)
  IN  /\ text[i] # Blank /\ \A j \in DOMAIN text : j > i => text[j] = Blank
      /\ NamedBy({text[i]}) \cap Links # {}

(* The calls are nested no deeper than there are links, unless a link leads *)
(* through itself or ends at another (object.c:343-372).                   *)
NestingBounded ==
  stage = "overflow" => MaxNesting < Cardinality(Links) \/ ThroughItself \/ EndsAtLink

(* Positions stay inside the leaves they point into, what is opened is of  *)
(* the kind that was asked for, and the nesting is bounded                 *)
(* (object.c:276-448).                                                     *)
NamesInv == NamesTypeOK /\ NestingBounded

(* Every search comes to an end.                                           *)
LookupEnds ==
  stage \in {"stat", "text", "name", "end", "kind"}
    ~> stage \in {"open", "failed", "astray", "overflow", "idle"}
=============================================================================
