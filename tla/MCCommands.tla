------------------------------ MODULE MCCommands ------------------------------
(***************************************************************************)
(* A process runs one command.  This module is the choice of one among the *)
(* machines of the small commands and of the files that processes share,   *)
(* each with small constants; the variables of the others are parked.      *)
(* Those the theorems are about are extended, the others are instances.    *)
(***************************************************************************)
EXTENDS Naturals, Sequences, TLC, Bundle, LogsTail, Tunnel, Paginate, Listing,
        SyncPlan

(* Lists of up to three pages of up to three items. *)
ListsOfPages == UNION {[1 .. n -> 0 .. 3] : n \in 1 .. 3}

(* One event of the first millisecond after another, and later ones. *)
LogEvents == {[ts |-> 1, id |-> 1], [ts |-> 1, id |-> 2], [ts |-> 2, id |-> 3],
           [ts |-> 2, id |-> 4], [ts |-> 3, id |-> 5]}

(* Keys 2 and 3 under a first sub-prefix, 5 and 6 under two others. *)
KeyPlaces == <<0, 1, 1, 0, 2, 3, 0>>
KeySets == {1 .. 7, 1 .. 7 \ {5}, {1, 2, 3, 7}, {2, 3}, {}}
LsToken(flag, value_) == [flag |-> flag, value |-> value_]
LsWord(word) == LsToken("none", word)
Ls(paths_, tokens_) == [verb |-> "ls", paths |-> paths_, tokens |-> tokens_]
LsCommands ==
  {[Ls(<<>>, <<>>) EXCEPT !.verb = "plan"], Ls(<<>>, <<LsToken("bucket-region", "none"), LsWord("r")>>),
   Ls(<<"key">>, <<LsToken("summarize", "none"), LsToken("page-size", "1")>>),
   Ls(<<"key">>, <<LsToken("recursive", "none"), LsToken("page-size", "none"), LsWord("1")>>),
   Ls(<<"bucket">>, <<LsToken("request-payer", "none"), LsToken("page-size", "3")>>),
   Ls(<<"key", "key">>, <<>>)}
  \cup {Ls(<<"key">>, refused) : refused \in
         {<<LsWord("w")>>, <<LsToken("odd", "none")>>, <<LsToken("page-size", "w"), LsWord("w")>>,
          <<LsToken("page-size", "none"), LsToken("recursive", "none")>>,
          <<LsToken("request-payer", "none"), LsWord("w"), LsWord("w")>>}}

(* Two names; a torn file, and two contents of one size. *)
SyncOrder == <<1, 2>>
SyncSizes == <<0, 1, 1>>
None == [data |-> 0, time |-> 0]
F(data, time) == [data |-> data, time |-> time]
SyncSources == {<<F(2, 1), F(2, 0)>>, <<F(2, 0), None>>}
SyncDests == {<<None, F(3, 2)>>, <<F(3, 2), None>>}
How(way, strategy, delete) ==
  [way |-> way, strategy |-> strategy, delete |-> delete, excluded |-> {}, dryrun |-> FALSE]
SyncHows ==
  {How("upload", "default", TRUE), How("download", "default", FALSE),
   How("download", "exact", TRUE), How("copy", "default", TRUE),
   [How("copy", "size", TRUE) EXCEPT !.excluded = {2}],
   [How("upload", "default", TRUE) EXCEPT !.dryrun = TRUE]}

(* A trail always on, and one that was off in its third hour, which may    *)
(* have been caught up with.                                               *)
DigestArn(valid) == [valid |-> valid, account |-> "mine", region |-> "r", trail |-> <<"my", "trail">>]
DigestLine == [arn |-> <<DigestArn(TRUE)>>, start |-> <<2>>, end |-> <<3>>, bucket |-> <<>>, prefix |-> <<>>,
               account |-> <<>>, region |-> <<>>]
DigestNames == [prefix |-> <<>>, org |-> <<>>, trail |-> <<"my", "trail">>, home |-> "r", account |-> "mine", source |-> "r"]
OwnTrail == [bucket |-> 2, prefix |-> <<>>, shared |-> FALSE]
Intact == [d \in 1 .. 4 |-> "good"]
Damages ==
  {f \in [1 .. 4 -> {"good", "missing", "altered"}] : Cardinality({d \in 1 .. 4 : f[d] = "altered"}) < 3}
  \cup {[Intact EXCEPT ![d] = kind] : d \in 2 .. 3, kind \in {"garbled", "unsigned", "undated", "lacking", "copied", "keyless"}}
InquiryIs(line, off, caught, moved, states, logs) ==
  [line |-> line, configured |-> <<"r">>, trails |-> <<OwnTrail>>, org |-> <<"o">>, names |-> DigestNames,
   off |-> off, caught |-> caught, moved |-> moved, digestIs |-> [d \in 1 .. 4 |-> IF d \in off \ caught THEN "missing" ELSE states[d]],
   logsAre |-> logs, published |-> {"then", "after"}]
Asked == InquiryIs(DigestLine, {3}, {3}, 3, Intact, "good")
DigestLines ==
  {[DigestLine EXCEPT !.arn = <<>>], [DigestLine EXCEPT !.arn = <<DigestArn(FALSE)>>], [DigestLine EXCEPT !.start = <<>>],
   [DigestLine EXCEPT !.start = <<0>>], [DigestLine EXCEPT !.end = <<0>>], [DigestLine EXCEPT !.end = <<1>>],
   [DigestLine EXCEPT !.end = <<>>], [DigestLine EXCEPT !.bucket = <<1>>], [DigestLine EXCEPT !.bucket = <<2>>, !.prefix = <<"p">>],
   [DigestLine EXCEPT !.region = <<"s">>], [DigestLine EXCEPT !.account = <<"theirs">>], [DigestLine EXCEPT !.prefix = <<"p">>]}
AllInquiries ==
  {InquiryIs([DigestLine EXCEPT !.start = <<w[1]>>, !.end = <<w[2]>>], off[1], off[2], moved, states, logs) :
     w \in {<<2, 3>>, <<1, 4>>}, off \in {<<{}, {}>>, <<{3}, {}>>, <<{3}, {3}>>}, moved \in {1, 3}, states \in Damages,
     logs \in {"good"}}
  \cup {[Asked EXCEPT !.logsAre = logs] : logs \in {"missing", "garbled", "longer", "altered"}}
  \cup {[Asked EXCEPT !.line = line] : line \in DigestLines}
  \cup {[Asked EXCEPT !.line = line, !.trails = <<[OwnTrail EXCEPT !.shared = TRUE]>>, !.names.org = <<"o">>,
           !.names.account = "theirs"] : line \in {DigestLine, [DigestLine EXCEPT !.account = <<"theirs">>],
                                                  [DigestLine EXCEPT !.account = <<"theirs">>, !.bucket = <<2>>]}}
  \cup {[Asked EXCEPT !.trails = <<[OwnTrail EXCEPT !.prefix = <<"p">>]>>, !.names.prefix = <<"p">>, !.line = line] :
           line \in {DigestLine, [DigestLine EXCEPT !.bucket = <<2>>], [DigestLine EXCEPT !.prefix = <<"q">>]}}
  \cup {[Asked EXCEPT !.line.region = <<"s">>, !.names.source = "s"], [Asked EXCEPT !.configured = <<>>],
        [Asked EXCEPT !.trails = <<>>], [Asked EXCEPT !.published = {}], [Asked EXCEPT !.published = {"after"}],
        [Asked EXCEPT !.published = {"then"}]}

(* Who profile 1 may be, and what it may lead to. *)
Profile(role, from, has) == [exists |-> TRUE, role |-> role, from |-> from, has |-> has]
NoProfile == [exists |-> FALSE, role |-> "none", from |-> 0, has |-> {}]
Ends == {Profile("none", 0, {"keys", "process"}), Profile("none", 0, {}),
         Profile("none", 0, {"sso", "configKeys"}), NoProfile}
Roles == {Profile("profile", p, has) : p \in 1 .. 3, has \in {{}, {"keys"}}} \cup
         {Profile("source", 0, {}), Profile("both", 2, {}), Profile("web", 0, {})}
Configs == {<<a, b, c>> : a \in Roles \cup Ends, b \in Roles \cup Ends,
                          c \in {Profile("profile", 1, {}), Profile("none", 0, {"keys"}),
                                 Profile("neither", 0, {})}}

(* Waiting for some things to be up, for one to be, and for one to be gone.*)
Reply(kind, selected, value, code_, status) ==
  [kind |-> kind, selected |-> selected, value |-> value, code |-> code_, status |-> status]
Ok(selected) == Reply("response", selected, "", "", 200)
OkValue(value) == Reply("response", <<>>, value, "", 200)
Error(code_, status) == Reply("error", <<>>, "", code_, status)
Answers ==
  {Ok(<<>>), Ok(<<"up">>), Ok(<<"up", "down">>), Ok(<<"off", "up">>), Ok(<<"down">>),
   Error("NotFound", 404), Error("Denied", 403),
   OkValue("up"), OkValue("busy"), OkValue("down"), Reply("broken", <<>>, "", "", 0)}
If(matcher, expected, state) == [state |-> state, matcher |-> matcher, expected |-> expected]
Bad == {Ok(<<"up", "down">>), Ok(<<"down">>)}
Running == [acceptors |-> <<If("pathAll", "up", "success"), If("pathAny", "down", "failure"),
                            If("error", "NotFound", "retry")>>,
            good |-> {Ok(<<"up">>)}, bad |-> Bad]
Gone == [acceptors |-> <<If("status", 404, "success"), If("pathAny", "down", "failure"),
                         If("error", "none", "retry")>>,
         good |-> {Error("NotFound", 404)}, bad |-> Bad]
Active == [acceptors |-> <<If("path", "up", "success"), If("path", "down", "failure"),
                           If("error", "NotFound", "retry")>>,
           good |-> {OkValue("up")}, bad |-> {OkValue("down")}]
Waiters == {Running, Gone, Active}

(* Each command by two processes, and a registration against its undoing. *)
Two(a, b) == [p \in {"a", "b"} |-> IF p = "a" THEN a ELSE b]
Teams == {Two(c, c) : c \in {"emr", "pipeline", "dlm", "subscribe", "trust"}} \cup
         {Two("register", "deregister")}

(* A value, sub-settings, a remark in the middle of them, and a sub-       *)
(* setting with the name of a key.                                         *)
Line(kind, name, value, deep) == [kind |-> kind, name |-> name, value |-> value, deep |-> deep]
Region == Line("option", "region", "w", FALSE)
Under(name) == Line("option", name, "w", TRUE)
Remark == Line("remark", "", "", FALSE)
S3(value) == Line("option", "s3", value, FALSE)
Bodies == {<<>>, <<Region, S3("w"), Remark>>, <<S3(""), Under("style"), Region>>,
           <<Remark, S3(""), Under("style"), Remark, Under("region")>>,
           <<S3("w"), Under("style")>>, <<S3(""), Under("region"), Region>>}
Section(name) == <<Line("section", name, "", FALSE)>>
Files == {<<>>} \cup {Section("one") \o a \o Section("two") \o b :
                       a \in Bodies, b \in {<<>>, <<S3(""), Under("style")>>}}
Set(section, key, sub) == [section |-> section, key |-> key, sub |-> sub, value |-> "v"]
Updates == {Set("one", "region", ""), Set("one", "s3", "style"), Set("one", "s3", ""),
            Set("two", "s3", "region"), Set("new", "s3", "style")}

(* Patterns of characters, wildcards and classes; of two stars, with what  *)
(* comes between them.                                                     *)
Char(c) == [kind |-> "char", chars |-> {c}]
Class(cs) == [kind |-> "class", chars |-> cs]
Star == Char("*")
Elements == {Char("a"), Star, Char("?"), Class({"b", "/"})}
Patterns == UNION {[1 .. n -> Elements] : n \in 0 .. 2} \cup
            {<<Star, x, y, Star, z>> : x, y, z \in Elements} \cup
            {<<Char("/"), Star, Char("b")>>}
Keep(pattern) == [keep |-> TRUE, pattern |-> pattern]
Omit(pattern) == [keep |-> FALSE, pattern |-> pattern]
RuleLists == {<<Omit(p)>> : p \in Patterns} \cup
             {<<Omit(<<Star>>), Keep(p), Omit(<<Star, Char("b")>>)>> : p \in
                {<<Star, Char("a")>>, <<Char("a"), Star>>, <<Star, Char("a"), Star>>}}
KeysIn == {<<>>, <<"a">>, <<"b">>, <<"a", "b">>, <<"a", "/", "b">>, <<"b", "a", "b">>,
           <<"a", "a", "b", "a">>, <<"a", "b", "a", "b", "b">>}
Root == <<"r", "/">>
Paths == {Root \o k : k \in KeysIn}

(* Lines of one key and of another, a mark of the first inside a line, and *)
(* the section that is the same for all.                                   *)
Login(kind, key, token_) == [kind |-> kind, key |-> key, token |-> token_]
LoginLines == {Login("entry", "x", 9), Login("mention", "x", 0), Login("remark", "", 0),
               Login("entry", "codeartifact", 9)}
ToolFiles == UNION {[1 .. n -> LoginLines] : n \in 0 .. 1} \cup
             {<<a, Login("other", "", 0), b>> : a \in LoginLines, b \in {Login("entry", "x", 9)}}

(* The directory of each of five nodes: 2 and 4 are directories.           *)
Nested == <<0, 0, 2, 0, 4>>

(* How a command calls, and the streams it may be given.                   *)
Way(way, tokened, redirectable, patient) ==
  [way |-> way, tokened |-> tokened, redirectable |-> redirectable, patient |-> patient]
Forms == {Way("document", TRUE, TRUE, FALSE), Way("document", TRUE, FALSE, TRUE),
          Way("file", FALSE, TRUE, FALSE), Way("events", FALSE, TRUE, FALSE),
          Way("events", FALSE, FALSE, FALSE)}
Frame(length, damage, says) == [length |-> length, damage |-> damage, says |-> says]
Streams ==
  {<<>>,
   <<Frame(2, "none", "event"), Frame(3, "none", "unknown"), Frame(2, "none", "event")>>,
   <<Frame(2, "none", "event"), Frame(2, "none", "exception"),
     Frame(2, "prelude", "event")>>,
   <<Frame(3, "none", "event"), Frame(2, "message", "event"), Frame(2, "none", "event")>>}

(* A decision tree of three lists within each other with every choice of   *)
(* conditions, a service that is global, and one with a parameter that no  *)
(* command gives.                                                          *)
Ref(name) == [kind |-> "ref", name |-> name]
Literal(value) == [kind |-> "literal", name |-> value]
Of(fn, arg) == [kind |-> "fn", name |-> fn, of |-> arg]
NoArg == Literal("none")
Cond(fn, a, b, assign) == [fn |-> fn, a |-> a, b |-> b, assign |-> assign]
RuleIs(kind, conditions, within, says, signs) ==
  [kind |-> kind, conditions |-> conditions, rules |-> within, says |-> says,
   signs |-> signs]
Subtree(conditions, within) == RuleIs("tree", conditions, within, <<>>, NoArg)
Endpoint(conditions, says, signs) == RuleIs("endpoint", conditions, <<>>, says, signs)
RefusalOf(conditions) == RuleIs("error", conditions, <<>>, <<>>, NoArg)
Param(name, builtIn, required, default) ==
  [name |-> name, builtIn |-> builtIn, required |-> required, default |-> default]
Fips == Cond("booleanEquals", Ref("UseFIPS"), Literal("true"), "none")
Sets(name) == Cond("isSet", Ref(name), NoArg, "none")
Lacks(name) == Cond("not", Of("isSet", Ref(name)), NoArg, "none")
InPartition == Cond("aws.partition", Ref("Region"), NoArg, "Partition")
SuffixIs(field) == Cond("getAttr", Ref("Partition"), Literal(field), "Suffix")
RegionParam(required) == Param("Region", "AWS::Region", required, "none")
BucketParam == Param("Bucket", "none", FALSE, "none")
Global ==
  [pseudo |-> "global",
   parameters |-> <<RegionParam(FALSE), Param("UseFIPS", "AWS::UseFIPS", TRUE, "false"),
                    Param("Endpoint", "SDK::Endpoint", FALSE, "none"), BucketParam>>,
   rules |->
     <<Subtree(<<Sets("Endpoint")>>,
         <<RefusalOf(<<Fips>>), Endpoint(<<>>, <<Ref("Endpoint")>>, NoArg)>>),
       Subtree(<<InPartition>>,
         <<Subtree(<<Fips, SuffixIs("fips")>>,
             <<Endpoint(<<Sets("Bucket")>>, <<Ref("Bucket"), Ref("Suffix")>>, NoArg)>>),
           Endpoint(<<Cond("stringEquals", Ref("Region"), Literal("global"), "none")>>,
                    <<Literal("sts")>>, Literal("us-1")),
           Endpoint(<<Lacks("Suffix"), SuffixIs("dns")>>,
                    <<Ref("Region"), Ref("Suffix")>>, NoArg)>>)>>]
Conditions == {<<>>, <<InPartition>>, <<Lacks("Partition")>>,
               <<InPartition, Cond("getAttr", Ref("Partition"), Literal("fips"), "none")>>}
Says(number) == <<Literal(number), Ref("Partition")>>
Shapes ==
  {[pseudo |-> "none", parameters |-> <<RegionParam(TRUE), BucketParam>>,
    rules |->
      <<Subtree(a, <<Subtree(b, <<Endpoint(c, Says("1"), NoArg)>>),
                     Endpoint(d, Says("2"), NoArg)>>),
        Endpoint(<<Lacks("Partition"), Sets("Bucket")>>, Says("3"), NoArg)>>] :
   a \in Conditions, b \in Conditions, c \in Conditions, d \in Conditions}
Lacking == [pseudo |-> "none", parameters |-> <<Param("OutpostId", "none", TRUE, "none")>>,
            rules |-> <<>>]
Rulesets == {Global, Lacking} \cup Shapes
Ask(region, bucket_, url, fips) ==
  [region |-> region, bucket |-> bucket_, url |-> url, fips |-> fips, statics |-> <<>>]
Requests == {Ask("", "none", "none", "false"), Ask("cn-1", "b", "none", "true"),
             Ask("us-2", "none", "none", "true"), Ask("us-1", "b", "u", "true")}
Partitions == <<[name |-> "aws", regions |-> {"us-1", "global"}, pattern |-> {"us-2"}],
                [name |-> "aws-cn", regions |-> {"cn-1"}, pattern |-> {}]>>
Attributes == [p \in {"aws", "aws-cn"} |->
  IF p = "aws" THEN [dns |-> "com", fips |-> "fips.com"] ELSE [dns |-> "com.cn"]]

(* Three revisions of a service, before and after they change: what both   *)
(* have was updated at other times, and the third has placeholders at      *)
(* first.  A deployment goes back, and one has a source that is not there. *)
Leaf(type, id, at) ==
  [type |-> type, id |-> id, leaf |-> TRUE, at |-> at, nodes |-> {}]
Grouped(type, id, nodes) ==
  [type |-> type, id |-> id, leaf |-> FALSE, at |-> 0, nodes |-> nodes]
Revision(alarms, endpoint, ingress) ==
  {Grouped("Alarms", "none", alarms),
   Grouped("Paths", "none", {Grouped("Path", endpoint, ingress)})}
TreeOf == [r \in 1 .. 3 |-> [e \in 1 .. 2 |->
  CASE r = 1 -> Revision({Leaf("Alarm", "a", 1)}, "e",
                         {Leaf("Balancer", "b", 2), Leaf("Certificate", "none", 0)})
    [] r = 2 -> Revision({Leaf("Alarm", "a", 1 + e)}, "e",
                         {Leaf("Balancer", "b", 1), Leaf("Certificate", "c", 3),
                          Leaf("Rule", "r", 1)})
    [] r = 3 -> IF e = 1 THEN Revision({}, "none", {Leaf("Rule", "none", 0)})
                ELSE Revision({Leaf("Alarm", "none", 1)}, "f",
                              {Leaf("Balancer", "g", 3), Leaf("Rule", "s", 1)})]]
Deployment(target, from, configs) ==
  [target |-> target, sources |-> from, configs |-> configs]
Deployments == <<Deployment(1, <<>>, <<1>>), Deployment(2, <<1>>, <<1, 2>>),
                 Deployment(1, <<3, 2>>, <<1>>)>>

Casts == {<<"command", "command">>, <<"command", "logout">>, <<"login", "command">>}

(* A group of targets that are the service, one that waits longer than is  *)
(* allowed, one that does not say how long, and groups that are not for it;*)
(* an appspec of several resources, spelled in several ways.               *)
TargetGroup(exists, platforms, services, ready, terminate) ==
  [there |-> exists, platforms |-> platforms, services |-> services,
   ready |-> ready, terminate |-> terminate]
Ecs == <<"ECS", "ECS">>
Both == <<"name", "name">>
DeployTargets ==
  {TargetGroup(TRUE, Ecs, <<<<"name", "arn">>, <<"arn", "name">>>>, 1, 2),
   TargetGroup(TRUE, Ecs, <<Both>>, 2, 3), TargetGroup(TRUE, Ecs, <<>>, -1, 1),
   TargetGroup(TRUE, Ecs, <<Both, <<"other", "name">>>>, 0, 0),
   TargetGroup(TRUE, <<"ECS", "Lambda">>, <<Both>>, 0, 0),
   TargetGroup(FALSE, Ecs, <<>>, 0, 0)}
Resource(definitions) == [properties |-> TRUE, definitions |-> definitions]
SpecFile(form_, listed_, resources) ==
  [form |-> form_, listed |-> listed_, resources |-> resources]
DeployAppspecs ==
  {SpecFile("json", TRUE, <<<<Resource(<<0>>)>>, <<Resource(<<0>>), Resource(<<0, 0>>)>>>>),
   SpecFile("yaml", TRUE, <<<<Resource(<<0>>)>>, <<Resource(<<>>)>>>>),
   SpecFile("yaml", FALSE, <<>>), SpecFile("neither", TRUE, <<>>)}

(* Two parts of one file and one of another, with one row for files.       *)
DisplayFile == [j \in {"a", "b", "c"} |-> IF j = "c" THEN 2 ELSE 1]

(* A scalar, a list and a boolean with its negation, an unknown flag, three*)
(* of the flags every command has, and words of which one has blanks.      *)
Bare(words) == [flag |-> "none", inline |-> FALSE, words |-> words]
Flag(name) == [flag |-> name, inline |-> FALSE, words |-> <<>>]
Inline(name, words) == [flag |-> name, inline |-> TRUE, words |-> words]
OneWord == Bare(<<"x">>)
LineTokens ==
  {OneWord, Bare(<<"y", "z">>), Bare(<<"help">>), Bare(<<"@file">>), Inline("key", <<"v">>)}
  \cup {Flag(f) : f \in {"key", "names", "force", "no-force", "other", "region",
                         "cli-input", "skeleton"}}
Argvs ==
  [1 .. 2 -> LineTokens]
  \cup {<<Flag("key"), OneWord>> \o r : r \in [1 .. 2 -> LineTokens]}
  \cup {<<Flag("names"), OneWord, a, Flag("key"), OneWord, b>> :
         a \in LineTokens, b \in LineTokens}
  \cup {<<OneWord, Flag("force"), a, Flag("key"), OneWord>> : a \in LineTokens}
CommandLines ==
  [tree : {"modelled", "custom", "owned"}, argv : Argvs, streams : BOOLEAN]
LineMember == [m \in {"key", "names", "force"} |->
  CASE m = "key" -> "scalar" [] m = "names" -> "list" [] m = "force" -> "boolean"]
LineNegates == [f \in {"no-force"} |-> "force"]
LineDocument == [m \in {"names", "key"} |-> <<"d">>]

(* Documents of up to four lines in three columns: of every kind of line,  *)
(* under a key, and under a key whose value has a name.                    *)
Rest(kind, anchor, to) == [kind |-> kind, anchor |-> anchor, name |-> to]
Nothing == Rest("none", "none", "none")
Plain == Rest("plain", "none", "none")
YamlLine(indent, dashes, key_, rest) ==
  [shape |-> "line", indent |-> indent, dashes |-> dashes, key |-> key_, rest |-> rest]
Simple(cols) ==
  UNION {{YamlLine(c, 0, "a", Plain), YamlLine(c, 0, "b", Nothing), YamlLine(c, 1, "none", Plain),
          YamlLine(c, 1, "a", Plain), YamlLine(c, 0, "none", Plain)} : c \in cols}
YamlLines(cols) ==
  Simple(cols)
  \cup UNION {{YamlLine(c, 2, "none", Plain), YamlLine(c, 1, "none", Nothing),
               YamlLine(c, 0, "a", Rest("block", "none", "none"))} : c \in cols}
  \cup {YamlLine(c, 0, k, Rest("alias", "none", "n")) : c \in {0, 2}, k \in {"c", "<<"}}
  \cup {YamlLine(2, 1, "none", Rest("alias", "none", "n")),
        YamlLine(0, 0, "b", Rest("plain", "n", "none"))}
  \cup {[YamlLine(0, 0, "none", Nothing) EXCEPT !.shape = s] : s \in {"blank", "remark"}}
Beneath(rest) == {<<YamlLine(0, 0, "b", rest)>>}
YamlPages ==
  {<<>>}
  \cup {<<a, b, c>> : a \in YamlLines({0}), b \in YamlLines({0, 2, 4}), c \in YamlLines({0, 2})}
  \cup {u \o <<a, b, c>> : u \in Beneath(Nothing), a \in Simple({0, 2}), b \in Simple({0, 2}),
                           c \in Simple({0, 2, 4})}
  \cup {u \o <<a, b, c>> : u \in Beneath(Rest("none", "n", "none")), a \in Simple({0, 2}),
                           b \in YamlLines({2}), c \in YamlLines({0})}

(* A directory with every kind of entry and a link to itself or to         *)
(* nowhere; one without what gives a warning, and a link to another        *)
(* directory; and a bucket with                                            *)
(* folders' own objects and keys alike but for a slash, or without them.   *)
DiskEntry(kind_, holds) == [kind |-> kind_, holds |-> holds]
TreeDisk(link) ==
  (<<"t">> :> DiskEntry("dir", <<>>)) @@ (<<"t", "x">> :> DiskEntry("file", "1"))
  @@ (<<"t", "d">> :> DiskEntry("dir", <<>>)) @@ (<<"t", "d", "y">> :> DiskEntry("file", "2"))
  @@ (<<"t", "d", "z">> :> DiskEntry("locked", "3"))
  @@ (<<"t", "s">> :> DiskEntry("sealed", <<>>))
  @@ (<<"t", "f">> :> DiskEntry("fifo", <<>>)) @@ (<<"t", "l">> :> DiskEntry("link", link))
  @@ (<<"e">> :> DiskEntry("dir", <<>>)) @@ (<<"e", "a">> :> DiskEntry("dir", <<>>))
  @@ (<<"e", "q">> :> DiskEntry("file", "4"))
CleanDisk ==
  LET other == TreeDisk(<<"t", "d">>)
  IN  [p \in DOMAIN other \ {<<"t", "s">>, <<"t", "f">>, <<"t", "d", "z">>} |-> other[p]]
XferDisks == {TreeDisk(to) : to \in {<<"t">>, <<"u">>}} \cup {CleanDisk}
OneStore ==
  (<<"b", <<"p", "a">>>> :> "A") @@ (<<"b", <<"p", "", "a">>>> :> "B")
  @@ (<<"b", <<"p", "">>>> :> "marker") @@ (<<"b", <<"p", "d", "">>>> :> "C")
  @@ (<<"b", <<"pq", "a">>>> :> "D") @@ (<<"b", <<"p", "a", "b">>>> :> "E")
XferStores ==
  {OneStore, [o \in {q \in DOMAIN OneStore : \A i \in DOMAIN q[2] : q[2][i] # ""} |-> OneStore[o]]}

OnDisk(name) == [at |-> "local", bucket |-> "none", name |-> name]
InS3(bucket_, key_) == [at |-> "s3", bucket |-> bucket_, name |-> key_]
Piped == [at |-> "stream", bucket |-> "none", name |-> <<"">>]
Nameless == <<"">>
Do(verb, from, to, recursive) ==
  [verb |-> verb, from |-> from, to |-> to, recursive |-> recursive, dryrun |-> FALSE,
   follow |-> TRUE, excludes |-> {}]
Cleared(verb, from, recursive) == Do(verb, from, OnDisk(Nameless), recursive)
TopDir == <<"t">>
XferScripts ==
  {<<[Do("cp", OnDisk(TopDir), InS3("c", k), TRUE) EXCEPT !.follow = f],
     Do("cp", InS3("c", k), OnDisk(<<"o">>), TRUE)>> : f \in BOOLEAN, k \in {Nameless, <<"p">>}}
  \cup {<<[Do("cp", OnDisk(TopDir), InS3("b", <<"p", "">>), TRUE)
            EXCEPT !.dryrun = d, !.excludes = {<<"t", "d", "y">>}]>> : d \in BOOLEAN}
  \cup {<<Do("cp", OnDisk(f), InS3("b", k), FALSE)>> :
         f \in {<<"t", "x">>, <<"t", "f">>, <<"t", "d">>, <<"u">>},
         k \in {Nameless, <<"p", "">>, <<"p">>}}
  \cup {<<[Do("cp", InS3("b", k), OnDisk(d), TRUE) EXCEPT !.excludes = x]>> :
         k \in {Nameless, <<"p">>, <<"p", "">>}, d \in {<<"o">>, <<"e", "">>},
         x \in {{}, {<<"p", "a">>}}}
  \cup {<<Do("cp", InS3("b", k), OnDisk(d), FALSE)>> :
         k \in {Nameless, <<"p", "a">>, <<"p", "d", "">>},
         d \in {<<"o">>, <<"e">>, <<"o", "">>, <<"e", "q", "x">>}}
  \cup {<<Do(v, InS3("b", k), InS3(c, q), TRUE)>> :
         v \in {"cp", "mv"}, k \in {Nameless, <<"p">>}, c \in {"b", "c"}, q \in {Nameless, <<"x">>}}
  \cup {<<Do(v, InS3("b", <<"p", "a">>), InS3(c, q), FALSE)>> :
         v \in {"cp", "mv"}, c \in {"b", "c"}, q \in {Nameless, <<"p", "a">>, <<"k", "">>}}
  \cup {<<Cleared("rm", InS3("b", k), r), Cleared("rb", InS3("b", Nameless), FALSE)>> :
         k \in {Nameless, <<"p">>, <<"p", "a">>}, r \in BOOLEAN}
  \cup {<<Cleared("rm", InS3("c", Nameless), FALSE)>>}
  \cup {<<Cleared("mb", f, FALSE), Cleared("rb", f, FALSE)>> :
         f \in {InS3("d", Nameless), InS3("d", <<"p">>), InS3("b", Nameless), InS3("x--x-s3", Nameless), OnDisk(TopDir)}}
  \cup {<<Cleared("rb", InS3(b, k), r)>> : b \in {"b", "c"}, k \in {Nameless, <<"p">>}, r \in BOOLEAN}
  \cup {<<[Do("cp", a, b, r) EXCEPT !.dryrun = TRUE]>> :
         a \in {Piped, OnDisk(TopDir), InS3("b", <<"p", "a">>)},
         b \in {Piped, OnDisk(TopDir), InS3("b", <<"k">>)}, r \in BOOLEAN}

(* Clusters of each era, whole and contradictory, and what is done to them. *)
NoEmrfs == [k \in {} |-> "set"]
NewCluster ==
  [verb |-> "create", labels |-> {"release"}, capacity |-> {"type"}, count |-> 1, groups |-> <<>>,
   flags |-> {}, ec2 |-> {}, apps |-> <<>>, boots |-> 0, emrfs |-> NoEmrfs, steps |-> <<>>,
   config |-> "none", logs |-> NoEmrfs, op |-> "none", type |-> "none", unit |-> "none"]
OnAmi == [NewCluster EXCEPT !.labels = {"ami3"}]
StepOf(type_) == [type |-> type_, whole |-> TRUE, failure |-> "CONTINUE"]
HalfStep == [StepOf("spark") EXCEPT !.whole = FALSE]
GroupAsk(role_, bid_) == [role |-> role_, count |-> 2, bid |-> bid_]
InGroups == [NewCluster EXCEPT !.capacity = {"groups"},
                              !.groups = <<GroupAsk("MASTER", "none"), GroupAsk("TASK", "price"), GroupAsk("CORE", "on-demand")>>]
Settings(keys, encryption, provider) ==
  [k \in keys |-> CASE k = "Encryption" -> encryption [] k = "ProviderType" -> provider [] OTHER -> "set"]
SomeSettings ==
  {Settings(k, "server", "kms") : k \in SUBSET {"Consistent", "RetryCount", "SSE", "Encryption"}}
  \cup {Settings({"Encryption", "ProviderType"} \cup k, "client", p) :
        k \in SUBSET {"KMSKeyId", "CustomProviderLocation", "CustomProviderClass"}, p \in {"kms", "custom", "odd"}}
  \cup {Settings({"Encryption", "RetryPeriod", "Consistent"}, e, "kms") : e \in {"client", "odd"}}
Asks ==
  {[NewCluster EXCEPT !.labels = l, !.apps = a] :
     l \in {{}, {"release", "ami3"}, {"odd"}, {"ami1"}}, a \in {<<>>, <<"hbase">>}}
  \cup {[NewCluster EXCEPT !.capacity = c, !.count = n] :
     c \in {{}, {"type", "count"}, {"count"}, {"fleets"}, {"fleets", "type"}}, n \in {1, 3}}
  \cup {[InGroups EXCEPT !.capacity = c, !.flags = f] :
     c \in {{"groups"}, {"groups", "fleets"}, {"groups", "count"}},
     f \in {{}, {"policy"}, {"policy", "scaling-role"}}}
  \cup {[NewCluster EXCEPT !.flags = f, !.ec2 = e] :
     f \in {{"default-roles"}, {"default-roles", "service-role"}, {"service-role"}},
     e \in {{}, {"InstanceProfile"}}}
  \cup {[NewCluster EXCEPT !.ec2 = e] :
     e \in {{"SubnetId", "KeyName"}, {"SubnetId", "SubnetIds"}, {"SubnetId", "AvailabilityZone"},
            {"AvailabilityZone", "AvailabilityZones"}, {"AvailabilityZone"}}}
  \cup {[NewCluster EXCEPT !.labels = l, !.flags = f] :
     l \in {{"release"}, {"ami3"}},
     f \in {{"debugging"}, {"debugging", "log-uri"}, {"debugging", "no-debugging"},
            {"auto-terminate"}, {"no-auto-terminate", "auto-terminate"}, {"no-visible", "protected"},
            {"visible", "no-visible"}, {"replace", "zero-concurrency"}, {"ebs-size"}}}
  \cup {[OnAmi EXCEPT !.apps = a, !.steps = s, !.boots = b, !.flags = f] :
     a \in {<<"hive with a site", "pig">>, <<"hbase", "impala">>, <<"ganglia", "mapr">>},
     s \in {<<>>, <<StepOf("hive"), StepOf("spark")>>, <<StepOf("impala"), StepOf("streaming")>>},
     b \in {0, 1, 2}, f \in {{}, {"restore"}}}
  \cup {[NewCluster EXCEPT !.apps = a, !.steps = s, !.config = c] :
     a \in {<<"hive", "spark">>}, c \in {"none", "plain"},
     s \in {<<StepOf("hive"), StepOf("spark")>>, <<StepOf("impala")>>, <<HalfStep>>, <<StepOf("pig")>>,
            <<StepOf("custom_jar"), StepOf("streaming")>>, <<StepOf("odd")>>}}
  \cup {[c EXCEPT !.emrfs = e] : c \in {OnAmi, NewCluster}, e \in SomeSettings}
  \cup {[NewCluster EXCEPT !.emrfs = Settings({"Consistent"}, "a", "a"), !.config = c] : c \in {"plain", "site"}}
  \cup {[OnAmi EXCEPT !.emrfs = Settings({"Consistent"}, "a", "a"), !.boots = 2]}
  \cup {[NewCluster EXCEPT !.logs = [t \in DOMAIN g |-> g[t]], !.flags = f] :
     f \in {{}, {"log-uri"}},
     g \in {[t \in {"system-logs"} |-> p] : p \in {"emr-managed", "disabled", "odd"}}
           \cup {[t \in {"persistent-ui-logs"} |-> p] : p \in {"on-customer-s3only", "emr-managed"}}
           \cup {[t \in {"odd-logs"} |-> "disabled"]}}
(* What is done to one that is there. *)
Then(verb_) == [NewCluster EXCEPT !.verb = verb_]
Nexts ==
  {[Then("add") EXCEPT !.steps = s] :
     s \in {<<>>, <<StepOf("impala")>>, <<StepOf("streaming"), StepOf("pig")>>, <<HalfStep>>}}
  \cup {[Then("install") EXCEPT !.apps = a] : a \in {<<"pig", "hive with a site">>, <<"hbase">>}}
  \cup {[Then("hbase") EXCEPT !.op = o, !.flags = f, !.type = "full", !.unit = "days"] :
     o \in {"backup", "restore", "schedule", "disable"}, f \in {{}, {"dir"}, {"type", "dir", "interval", "unit"}, {"full"}}}
  \cup {[Then("modify") EXCEPT !.flags = f] :
     f \in {{}, {"visible", "no-visible"}, {"no-visible", "protected"}, {"auto-terminate", "replace"},
            {"no-protected", "no-auto-terminate", "no-replace"}}}
  \cup {Then("terminate")}
  \cup {[Then("remote") EXCEPT !.flags = f, !.op = o] :
     o \in {"ssh", "get"}, f \in {{"cluster-id", "key"}, {"cluster-id", "key", "src"}, {"key"}}}
EmrSessions ==
  {<<a>> : a \in Asks}
  \cup {<<[c EXCEPT !.flags = f], a>> : c \in {NewCluster, OnAmi}, f \in {{"protected", "log-uri", "debugging"}, {}}, a \in Nexts}

(* Models with a member of each kind, what is asked of them, alone and in  *)
(* pairs, and what is answered.                                            *)
Has(kind) ==
  [kind |-> kind, json |-> "", xml |-> "", ec2 |-> "", key |-> "", flat |-> FALSE,
   flatShape |-> FALSE, attribute |-> FALSE, format |-> "", required |-> FALSE,
   token |-> FALSE, min |-> 0, bind |-> <<"body">>, policy |-> FALSE]
HasAt(bound, kind) == [Has(kind) EXCEPT !.bind = bound]
TreeModel ==
  (<<>> :> Has("structure")) @@
  (<<"Name">> :> [Has("string") EXCEPT !.json = "name", !.xml = "nm", !.ec2 = "QName",
                                     !.required = TRUE, !.min = 1]) @@
  (<<"Token">> :> [Has("string") EXCEPT !.token = TRUE]) @@
  (<<"When">> :> Has("timestamp")) @@
  (<<"Since">> :> [Has("timestamp") EXCEPT !.format = "epoch"]) @@
  (<<"Data">> :> Has("blob")) @@
  (<<"Size">> :> [Has("number") EXCEPT !.min = 1, !.xml = "size"]) @@
  (<<"On">> :> Has("boolean")) @@
  (<<"Inner">> :> Has("structure")) @@
  (<<"Inner", "Deep">> :> [Has("string") EXCEPT !.json = "deep"]) @@
  (<<"Inner", "Times">> :> Has("list")) @@
  (<<"Inner", "Times", "*">> :> Has("timestamp")) @@
  (<<"Items">> :> [Has("list") EXCEPT !.min = 1]) @@
  (<<"Items", "*">> :> [Has("string") EXCEPT !.xml = "item"]) @@
  (<<"Rows">> :> Has("list")) @@
  (<<"Rows", "*">> :> Has("structure")) @@
  (<<"Rows", "*", "Size">> :> Has("number")) @@
  (<<"Flat">> :> [Has("list") EXCEPT !.flatShape = TRUE]) @@
  (<<"Flat", "*">> :> Has("string")) @@
  (<<"Tags">> :> Has("map")) @@
  (<<"Tags", "*">> :> Has("string")) @@
  (<<"Policy">> :> [Has("string") EXCEPT !.policy = TRUE])
HttpModel ==
  (<<>> :> Has("structure")) @@
  (<<"Id">> :> [HasAt(<<"label">>, "string") EXCEPT !.required = TRUE]) @@
  (<<"Since">> :> HasAt(<<"query", "since">>, "timestamp")) @@
  (<<"Q">> :> HasAt(<<"query", "q">>, "list")) @@
  (<<"Q", "*">> :> Has("string")) @@
  (<<"More">> :> HasAt(<<"params">>, "map")) @@
  (<<"More", "*">> :> Has("string")) @@
  (<<"At">> :> HasAt(<<"header", "x-at">>, "timestamp")) @@
  (<<"N">> :> HasAt(<<"header", "x-n">>, "number")) @@
  (<<"Meta">> :> HasAt(<<"prefix", "x-meta-">>, "map")) @@
  (<<"Meta", "*">> :> Has("string")) @@
  (<<"Name">> :> [Has("string") EXCEPT !.json = "name", !.xml = "nm"]) @@
  (<<"Grant">> :> Has("structure")) @@
  (<<"Grant", "Type">> :> [Has("string") EXCEPT !.attribute = TRUE, !.xml = "xsi:type"]) @@
  (<<"Rows">> :> [Has("list") EXCEPT !.flat = TRUE, !.xml = "row"]) @@
  (<<"Rows", "*">> :> Has("string")) @@
  (<<"Tags">> :> [Has("map") EXCEPT !.flat = TRUE, !.key = "k"]) @@
  (<<"Tags", "*">> :> [Has("string") EXCEPT !.xml = "v"])
PayloadModel ==
  (<<>> :> Has("structure")) @@
  (<<"Id">> :> [HasAt(<<"label">>, "string") EXCEPT !.required = TRUE]) @@
  (<<"Doc">> :> HasAt(<<"payload">>, "structure")) @@
  (<<"Doc", "Name">> :> [Has("string") EXCEPT !.xml = "nm"]) @@
  (<<"Doc", "Rows">> :> [Has("list") EXCEPT !.flat = TRUE]) @@
  (<<"Doc", "Rows", "*">> :> Has("string"))
RawModel ==
  (<<>> :> Has("structure")) @@
  (<<"Id">> :> [HasAt(<<"label">>, "string") EXCEPT !.required = TRUE]) @@
  (<<"Data">> :> HasAt(<<"payload">>, "blob")) @@
  (<<"N">> :> HasAt(<<"header", "x-n">>, "number"))
PlaceModel == (<<>> :> Has("structure")) @@ (<<"Place">> :> Has("string"))
ListModel ==
  (<<>> :> Has("structure")) @@
  (<<"EncodingType">> :> HasAt(<<"query", "encoding-type">>, "string")) @@
  (<<"Prefix">> :> Has("string")) @@
  (<<"Contents">> :> [Has("list") EXCEPT !.flat = TRUE]) @@
  (<<"Contents", "*">> :> Has("structure")) @@
  (<<"Contents", "*", "Key">> :> Has("string"))
BodySchemas == [tree |-> TreeModel, http |-> HttpModel, payload |-> PayloadModel, raw |-> RawModel,
            location |-> PlaceModel, listed |-> ListModel]

One(at, form, content) == {[at |-> at, is |-> <<form, content>>]}
NameGiven(text) == One(<<"Name">>, "text", text)
BodyParts ==
  {{}, One(<<"Token">>, "text", "t"), One(<<"When">>, "iso", "10"),
   One(<<"Data">>, "base64", "b"),
   One(<<"Size">>, "number", 7), One(<<"Size">>, "number", 0), One(<<"On">>, "bool", "false"),
   One(<<"Inner">>, "empty", ""), One(<<"Items">>, "empty", ""), One(<<"Rows">>, "empty", ""),
   One(<<"Inner", "Deep">>, "text", "d") \cup One(<<"Inner", "Times", "1">>, "iso", "10"),
   One(<<"Items", "1">>, "text", "i") \cup One(<<"Items", "2">>, "text", "j"),
   One(<<"Rows", "1", "Size">>, "number", 1) \cup One(<<"Rows", "2", "Size">>, "number", 2),
   One(<<"Flat", "1">>, "text", "i") \cup One(<<"Flat", "2">>, "text", "j"),
   One(<<"Tags", "2">>, "text", "v"),
   One(<<"Tags", "1">>, "text", "u") \cup One(<<"Tags", "2">>, "text", "v"),
   One(<<"Policy">>, "encoded", "p"), One(<<"Inner", "Else">>, "text", "e"),
   One(<<"Flat">>, "text", "e")}
MoreParts ==
  {One(<<"Token">>, "text", "t"), One(<<"Inner", "Deep">>, "text", "d"),
   One(<<"Tags", "1">>, "text", "u") \cup One(<<"Tags", "2">>, "text", "v")}
HttpParts ==
  {{}, One(<<"Since">>, "epoch", "10"), One(<<"At">>, "iso", "10"), One(<<"N">>, "number", 3),
   One(<<"Q", "1">>, "text", "i") \cup One(<<"Q", "2">>, "text", "j"),
   One(<<"More", "1">>, "text", "m"), One(<<"Name">>, "text", "n"),
   One(<<"Meta", "1">>, "text", "u") \cup One(<<"Meta", "2">>, "text", "v"),
   One(<<"Grant", "Type">>, "text", "g"),
   One(<<"Rows", "1">>, "text", "i") \cup One(<<"Rows", "2">>, "text", "j"),
   One(<<"Tags", "1">>, "text", "u") \cup One(<<"Tags", "2">>, "text", "v")}
MoreHttp ==
  {{}, One(<<"Name">>, "text", "n"), One(<<"Meta", "1">>, "text", "u") \cup One(<<"Meta", "2">>, "text", "v")}
BodyCall(protocol, schema, given_, answer_) ==
  [protocol |-> protocol, schema |-> schema, input |-> given_, answer |-> answer_,
   listing |-> FALSE, bare |-> FALSE]
IdGiven == One(<<"Id">>, "text", "x")
HttpAnswers ==
  {{}, One(<<"At">>, "iso", "10") \cup One(<<"Name">>, "text", "n"),
   One(<<"Meta", "1">>, "text", "u") \cup One(<<"N">>, "number", 3),
   One(<<"Rows", "1">>, "text", "i") \cup One(<<"Rows", "2">>, "text", "j")}
BodyCalls ==
  {BodyCall(p, "tree", NameGiven("n") \cup f, NameGiven("n") \cup f) :
     p \in {"json", "cbor", "query", "ec2"}, f \in BodyParts} \cup
  {BodyCall(p, "tree", NameGiven("n") \cup f \cup g, {}) :
     p \in {"json", "cbor", "query", "ec2"}, f \in BodyParts, g \in MoreParts} \cup
  {BodyCall(p, "tree", d, {}) : p \in {"json", "query"},
     d \in {{}, NameGiven(""), One(<<"Name">>, "number", 1)}} \cup
  {BodyCall(p, "tree", NameGiven("n") \cup One(<<"Since">>, form, "20"), One(<<"Since">>, "iso", "20")) :
     p \in {"json", "cbor", "ec2"}, form \in {"iso", "epoch"}} \cup
  {BodyCall("cbor", "tree", NameGiven("n"), One(<<"When">>, "fraction", "10"))} \cup
  {BodyCall("ec2", "tree", NameGiven("n") \cup One(<<"When">>, "epoch", "10"), {})} \cup
  {BodyCall(p, "http", IdGiven \cup f \cup g, {}) : p \in {"restJson", "restXml"},
     f \in HttpParts, g \in MoreHttp} \cup
  {BodyCall(p, "http", IdGiven, a) : p \in {"restJson", "restXml"}, a \in HttpAnswers} \cup
  {BodyCall(p, "payload", IdGiven \cup f, {}) : p \in {"restXml", "restJson"},
     f \in {{}, One(<<"Doc", "Rows", "1">>, "text", "i") \cup One(<<"Doc", "Rows", "2">>, "text", "j")}} \cup
  {BodyCall("restXml", "payload", IdGiven \cup One(<<"Doc", "Name">>, "text", "n"), {})} \cup
  {BodyCall(p, "raw", IdGiven \cup One(<<"Data">>, form, "b"), One(<<"N">>, "number", 3)) :
     p \in {"restXml", "restJson"}, form \in {"base64", "file"}} \cup
  {[BodyCall("restXml", "location", {}, a) EXCEPT !.bare = TRUE] :
     a \in {One(<<"Place">>, "text", "eu"), One(<<"Place">>, "null", "")}} \cup
  {[BodyCall("restXml", "listed", d,
         One(<<"Prefix">>, "text", "a b") \cup One(<<"Contents", "1", "Key">>, "text", "a b")
         \cup One(<<"Contents", "2", "Key">>, "text", "a+b"))
      EXCEPT !.listing = TRUE] : d \in {{}, One(<<"EncodingType">>, "text", "url")}}
Uppers == [nm |-> "Nm", size |-> "Size", item |-> "Item"]

(* Catalogues of models, whole and broken, with the rules of their names. *)
ShapeIs(kind, operations, resources) ==
  [kind |-> kind, operations |-> operations, resources |-> resources]
ModelJson ==
  (<<10>> :> ShapeIs("service", << <<1>> >>, << <<3>>, <<8>> >>)) @@
  (<<11>> :> ShapeIs("service", << <<1>>, <<1, 1>> >>, <<>>)) @@
  (<<12>> :> ShapeIs("service", <<>>, <<>>)) @@
  (<<20>> :> ShapeIs("resource", << <<1, 1>> >>, << <<3, 1>> >>)) @@
  (<<3, 1>> :> ShapeIs("resource", << <<2>> >>, << <<3>>, <<4>> >>)) @@
  (<<30, 1>> :> ShapeIs("operation", <<>>, <<>>)) @@
  (<<40>> :> ShapeIs("structure", <<>>, <<>>))
ModelPrelude == (<<9>> :> ShapeIs("string", <<>>, <<>>))
CliNames ==
  (<<1>> :> <<1, 6>>) @@ (<<1, 1>> :> <<6>>) @@ (<<2>> :> <<1>>)
Sourced(name, id, shapes) == [name |-> name, id |-> id, shapes |-> shapes]
NestedModel ==
  Sourced(<<1, 2>>, <<5>>,
          << <<<<5>>, <<10>>>>, <<<<3, 1>>, <<3, 1>>>>, <<<<3>>, <<20>>>>, <<<<2>>, <<30, 1>>>>,
             <<<<1, 1>>, <<30, 1>>>>, <<<<1>>, <<30, 1>>>>, <<<<4>>, <<40>>>> >>)
Twofold ==
  Sourced(<<1>>, <<1, 5>>,
          << <<<<1, 5>>, <<11>>>>, <<<<1, 1>>, <<30, 1>>>>, <<<<1>>, <<30, 1>>>> >>)
Bareness == Sourced(<<2>>, <<5>>, << <<<<5>>, <<12>>>> >>)
Undecoded == Sourced(<<2>>, <<5>>, << <<<<5>>, <<12>>>>, <<<<4>>, <<99>>>> >>)
Dangling == Sourced(<<1>>, <<5>>, << <<<<5>>, <<11>>>>, <<<<1>>, <<30, 1>>>> >>)
ModelLibraries ==
  {<<>>, <<Bareness, NestedModel, Twofold>>, <<Twofold, Undecoded>>, <<Dangling, NestedModel>>}
NoRules ==
  [removed |-> {}, streams |-> {}, replaced |-> {}, allowed |-> {}, renamed |-> <<>>,
   aliased |-> <<>>, proxies |-> {}]
ModelRules ==
  (<<1, 2>> :> [NoRules EXCEPT !.renamed = (<<1, 6>> :> <<7>>), !.aliased = (<<6>> :> <<7, 1>>)]) @@
  (<<1>> :> [NoRules EXCEPT !.removed = {<<1, 6>>, <<6>>}, !.streams = {<<6>>}]) @@
  (<<2>> :> [NoRules EXCEPT !.replaced = {<<6>>}, !.proxies = {<<<<6, 1>>, <<6>>>>}]) @@
  (<<1, 1>> :> NoRules)
ModelCuts == 0 .. 70

(* The places of the models: packaged, downloaded, vendored, and an index that is left. *)
NoIndex == [is |-> "none", map |-> <<>>]
Directory(container, json, index) == [container |-> container, json |-> json, index |-> index]
Empties == Directory({}, <<>>, NoIndex)
Vendored == ("sts" :> "sts") @@ ("s3" :> "s3api") @@ ("logs" :> "damaged")
Indexed(map) == [is |-> "whole", map |-> map]
PackagedLayout(installed, cached, source_) ==
  [installed |-> installed, cached |-> cached, source |-> source_]
ModelLayouts ==
  {PackagedLayout(Directory({"sts", "s3api"}, <<>>, NoIndex), Empties, Empties),
   PackagedLayout(Empties, Directory({"sts"}, <<>>, NoIndex), Empties),
   PackagedLayout(Empties, Empties, Empties),
   PackagedLayout(Empties, Empties, Directory({}, Vendored, NoIndex)),
   PackagedLayout(Empties, Empties,
                  Directory({}, Vendored, Indexed(("s3api" :> "sts") @@ ("logs" :> "gone")))),
   [env |-> Empties] @@ PackagedLayout(Empties, Directory({"sts"}, <<>>, NoIndex), Empties),
   [env |-> Directory({}, <<>>, Indexed(<<>>))] @@ PackagedLayout(Empties, Empties, Empties)}
ModelUpdates ==
  {("sts" :> "sts") @@ ("s3" :> "logs") @@ ("logs" :> "s3api"), Vendored}

(* Command lines of every kind. *)
InvokeKinds == {"custom", "plain", "file", "events", "duplex", "wait"}
InvokeSkeletons == {"none", "input", "output", "yaml-input", "bogus"}

(* Frames, events, a WebSocket and CBOR, with names of a byte or two. *)
HeaderIs(name, kind, value) == [name |-> name, kind |-> kind, value |-> value]
FrameIs(headers, payload) == [headers |-> headers, payload |-> payload]
LongName == <<97, 98>>
WireFrames ==
  {<<FrameIs(<<>>, <<>>), FrameIs(<<HeaderIs(<<97>>, 7, <<1, 13>>), HeaderIs(LongName, 0, <<>>)>>, <<7, 0>>)>>,
   <<FrameIs(<<HeaderIs(<<98>>, 4, <<0, 0, 1, 9>>), HeaderIs(<<>>, 6, <<>>)>>, <<1>>), FrameIs(<<>>, <<255>>)>>,
   <<FrameIs(<<HeaderIs(<<98>>, 9, [k \in 1 .. 16 |-> k]), HeaderIs(<<98>>, 1, <<>>)>>, <<>>)>>}
MemberIs(name, role, type) == [name |-> name, role |-> role, type |-> type]
WireEvents == (<<1>> :> <<MemberIs(<<97>>, "header", "text"), MemberIs(<<98>>, "payload", "blob")>>)
  @@ (<<2>> :> <<MemberIs(<<97>>, "payload", "structure"), MemberIs(<<98>>, "header", "number")>>)
  @@ (<<3>> :> <<MemberIs(<<97>>, "body", "text"), MemberIs(<<98>>, "body", "blob"), MemberIs(<<99>>, "header", "truth")>>)
  @@ (<<4>> :> <<MemberIs(<<97>>, "payload", "text")>>) @@ (<<5>> :> <<>>)
  @@ (<<6>> :> <<MemberIs(<<97>>, "body", "text")>>)
As(as, of) == [as |-> as, of |-> of]
WireValues == {As("text", <<9>>), As("base64", <<9, 8>>), As("number", <<7>>), As("truth", <<1>>), As("other", <<>>)}
WireGiven ==
  {<<>>} \cup {(<<97>> :> v) : v \in WireValues} \cup {(<<98>> :> v) : v \in WireValues}
  \cup {(<<97>> :> As("number", <<7>>)) @@ (<<98>> :> v) : v \in WireValues}
EventSaid(kind, name, value) == [kind |-> kind, name |-> name, value |-> value]
EventsSaid ==
  {<<EventSaid("event", n, v)>> : n \in {<<1>>, <<3>>, <<4>>}, v \in WireGiven}
  \cup {<<EventSaid("event", <<2>>,
            (<<97>> :> As("object", (<<97>> :> As("text", <<1>>)) @@ (<<98>> :> As("base64", <<>>))))),
          EventSaid("exception", <<6>>, (<<97>> :> As("text", <<4, 5>>)))>>,
        <<EventSaid("unknown", <<9>>, <<>>), EventSaid("event", <<2>>, (<<98>> :> As("number", <<3>>)))>>,
        <<EventSaid("event", <<3>>, (<<99>> :> As("truth", <<0>>)) @@ (<<97>> :> As("text", <<>>))),
          EventSaid("error", <<8>>, <<>>)>>,
        <<EventSaid("event", <<5>>, <<>>), EventSaid("exception", <<9>>, <<>>)>>}
Ws(opcode, payload, mask, form) == [opcode |-> opcode, payload |-> payload, mask |-> mask, form |-> form]
Run(n) == [k \in 1 .. n |-> k % 256]
WireSockets == {<<Ws(2, <<1, 13>>, <<>>, "short"), Ws(9, <<>>, <<>>, "word")>>,
  <<Ws(2, Run(5), <<>>, "long"), Ws(8, <<3, 232>>, <<>>, "short")>>,
  <<Ws(2, Run(5), <<9, 1, 255, 0>>, "client"), Ws(10, <<>>, <<1, 2, 3, 4>>, "client")>>,
  <<Ws(2, Run(125), <<1, 2, 3, 4>>, "client")>>, <<Ws(2, Run(126), <<1, 2, 3, 4>>, "client"), Ws(2, <<13, 10, 13, 10>>, <<>>, "short")>>}
It(is, n, raw, items) == [is |-> is, n |-> n, raw |-> raw, items |-> items]
Num(n) == It("uint", n, <<>>, <<>>)
Txt(raw) == It("text", 0, raw, <<>>)
WireItems == {Num(n) : n \in {0, 23, 24, 255, 256, 65535, 65536}} \cup
  {It("nint", 24, <<>>, <<>>), Txt(Run(24)), It("bytes", 0, <<255, 0>>, <<>>),
   It("float", 0, <<64, 0, 0, 0, 0, 0, 0, 1>>, <<>>), It("array", 0, <<>>, <<>>), Txt(<<>>),
   It("map", 0, <<>>, <<Txt(<<97>>), It("array", 0, <<>>, <<Num(1), Txt(<<98, 99>>), It("simple", 21, <<>>, <<>>)>>),
                        Txt(<<98>>), It("tag", 1, <<>>, <<It("nint", 300, <<>>, <<>>)>>)>>),
   It("array", 0, <<>>, <<It("map", 0, <<>>, <<>>), It("map", 0, <<>>, <<Num(1), It("array", 0, <<>>, <<It("simple", 22, <<>>, <<>>)>>)>>),
                          It("array", 0, <<>>, <<Num(24)>>)>>)}
DialogIs(format, head, says) == [format |-> format, head |-> head, says |-> says, events |-> WireEvents]
WireDialogs ==
  {DialogIs("frames", <<>>, f) : f \in WireFrames}
  \cup {DialogIs("events", <<>>, e) : e \in EventsSaid}
  \cup {DialogIs("socket", h, s) : h \in {<<101, 13, 10, 1>>, <<101, 0>>, <<200, 1>>}, s \in WireSockets}
  \cup {DialogIs("cbor", <<>>, <<[item |-> i, style |-> s]>>) : i \in WireItems, s \in {"client", "wide", "open"}}

(* Options of a transfer, objects of every size, one under a customer's key. *)
FlagWith(flag, value) == [flag |-> flag, inline |-> <<value>>]
FlagAlone(flag) == [flag |-> flag, inline |-> <<>>]
AWord(word) == [flag |-> "word", word |-> word, inline |-> <<>>]
AKey == <<FlagAlone("sse-c-key"), AWord("key")>>
SizeText(n, unit) == [n |-> n, unit |-> unit]
MetaText(form, valid, pairs) == [form |-> form, valid |-> valid, pairs |-> pairs]
HaulLines ==
  {<<>>, <<FlagAlone("unknown")>>, <<AWord("path")>>,
   <<FlagWith("storage-class", "glacier"), FlagAlone("storage-class"), AWord("standard")>>,
   <<FlagWith("acl", "private"), FlagAlone("acl"), FlagAlone("quiet")>>,
   <<FlagAlone("sse"), FlagAlone("sse-kms-key-id"), AWord("kms"), FlagAlone("only-show-errors")>>,
   <<FlagAlone("sse-c")>> \o AKey, <<FlagAlone("sse-c")>>, AKey \o <<FlagWith("sse-c", "none"), FlagAlone("no-progress")>>,
   <<FlagWith("cache-control", "max-age"), FlagAlone("expires"), AWord("never")>>,
   <<FlagWith("content-type", "text/css"), FlagWith("content-language", "de")>>,
   <<FlagWith("content-disposition", "inline"), FlagWith("content-encoding", "gzip"), FlagWith("website-redirect", "/")>>,
   <<FlagWith("metadata-directive", "REPLACE")>>,
   <<FlagWith("metadata-directive", "REPLACE"), FlagWith("metadata", MetaText("pairs", TRUE, <<<<"a", "1">>, <<"a", "2">>>>))>>,
   <<FlagWith("metadata", MetaText("json", TRUE, <<<<"b", "1">>>>)), FlagWith("cache-control", "none")>>,
   <<FlagWith("metadata", MetaText("pairs", TRUE, <<<<"b">>>>))>>,
   <<FlagWith("metadata", MetaText("json", FALSE, <<>>))>>, <<FlagAlone("metadata"), FlagAlone("recursive")>>,
   <<FlagAlone("grants"), AWord(<<"read", "uri", "all">>), AWord(<<"full", "id", "me">>), AWord(<<"read">>)>>,
   <<FlagWith("grants", <<"none", "id", "me">>), AWord(<<"writeacl", "id", "me">>), FlagAlone("follow-symlinks")>>,
   <<FlagAlone("dryrun"), FlagAlone("exclude"), FlagAlone("no-follow-symlinks")>>,
   <<FlagAlone("include"), AWord("*"), FlagWith("concurrency", "zero")>>,
   <<FlagAlone("concurrency"), FlagAlone("delete")>>, <<FlagAlone("exact-timestamps"), FlagAlone("size-only")>>,
   <<FlagAlone("concurrency"), AWord("four"), FlagAlone("size-only")>>,
   <<FlagWith("multipart-threshold", SizeText(20, "M")), FlagWith("multipart-chunksize", SizeText(1, "G"))>>,
   <<FlagWith("multipart-threshold", SizeText(0, "K")), FlagWith("multipart-chunksize", SizeText(1, "K"))>>,
   <<FlagAlone("multipart-threshold"), AWord(SizeText(1, "K")), FlagWith("multipart-chunksize", SizeText(1, "T"))>>,
   <<FlagAlone("multipart-threshold")>>}
PlainSource == [attrs |-> {<<"head", "content-type", "text/csv">>, <<"head", "cache-control", "none">>,
                          <<"meta", "b", "2">>, <<"head", "storage-class", "glacier">>}, key |-> {}]
LockedSource == [PlainSource EXCEPT !.key = {"key"}]
HaulIs(verb, line, way, size, key, from) ==
  [verb |-> verb, line |-> line, way |-> way, size |-> size, key |-> key, from |-> from]
AllHauls ==
  {HaulIs("cp", line, way, size, <<"a", "txt">>, PlainSource) :
     line \in HaulLines, way \in {"put", "stdin", "copy"}, size \in {1, 8192, 20480}}
  \cup {HaulIs("sync", line, "copy", 20480, <<"htm">>, PlainSource) : line \in HaulLines}
  \cup {HaulIs("cp", line, way, size, <<"txt", "b">>, LockedSource) :
          line \in {<<>>, <<FlagAlone("sse-c")>> \o AKey}, way \in {"get", "copy"}, size \in {0, 209715200}}
  \cup {HaulIs("cp", <<>>, "put", 209715200, <<"b">>, PlainSource), HaulIs("mv", <<FlagAlone("sse-c")>> \o AKey, "get", 1, <<"b">>, PlainSource)}

-----------------------------------------------------------------------------
VARIABLES
  cmd,                (* the machine that runs *)
  waitAt, waiter, polls, waitEnd,
  inquiry, walkAt, naming, backfill, inBucket, digests, digest, lastStart, publicKeys,
  covered, counts, digestSaid, logsSaid, walkTold, walkCode,
  chainAt, config, env, ambient, explicit, profile, visited, stack, creds,
  cast, ssoAt, held, spent, opened, tokenFile, roleFile, issued, rotates,
  refreshOf, ended, expiry, code, mishap, crowded,
  job, fetchAt, asset, handle, partial, installed, crashes, shared,
  team, todo, gone, heldDoc, there, reports, undone, hit, alone, overlap,
  retries,
  update, setAt, lines, text, was, filler, between,
  filterAt, path, rules, rule, include, pi, ti, star, mark,
  tool, loginAt, secret, granted, toolFile, legible, edited, first, blind,
  collided,
  form, callAt, calls, opToken, attempt, followed, allowance, lastCost, homeKnown,
  atHome, reply, frames, arrived, taken, handed, streamError, outfile, sentTimes,
  effects, served, callSaid,
  rulesAt, asked, ruleset, regionFor, levels, tested, bindings, place,
  monAt, view, display, epoch, appeared, latest, inactive, moves, refreshes,
  interrupted, named, sources, trees, origins, managed, cached, previous, announced,
  deployAt, target, appspec, revisions, revision, deployment, polled, repeats,
  displayAt, partsLeft, active, holder, filesDone, screen, frameRows, term,
  cursorAt, summary, enabled, running, speaks, linesUp, frame, ticks,
  lineAt, line, next, parameters, surplus, positionals, document, input,
  yamlAt, page, rows, row, nest, anchors,
  xferAt, script, disk, store, owned, scanning, pairs, lost, shifted, skips, hollow,
  atStart, endings,
  emrAt, session, cluster, heard, sending, emrDone,
  bodyAt, exchange, given, onWire, inReply, bodyShown, bodySaid,
  library, image, cut, consulted, shelfAt,
  layout, earlier, reader,
  invoked, invokeAt, faults, errorFormat, requests, stdout, wrote, failure,
  stderr,
  talk, wire, whole, buffer, wireAt, readOff, wireSaid,
  haul, haulAt, flagsLeft, opts, creating, kept, landed, haulCode

W == INSTANCE Waiter WITH Waiters <- Waiters, Answers <- Answers,
  MaxAttempts <- 3
D == INSTANCE DigestWalk WITH Hours <- 4, Inquiries <- AllInquiries
C == INSTANCE ProfileChain WITH Configs <- Configs, Default <- 1
O == INSTANCE SsoSession WITH Casts <- Casts, MaxIssued <- 3, MaxPolls <- 1
K == INSTANCE Catalogue WITH Fetchers <- {1, 2, 3}, MaxCrashes <- 1
U == INSTANCE Setup WITH Teams <- Teams, Roles <- <<"first", "second">>,
  MaxRetries <- 1
E == INSTANCE ConfigFile WITH Files <- Files, Updates <- Updates
G == INSTANCE Filter WITH Root <- Root, Paths <- Paths, RuleLists <- RuleLists
N == INSTANCE ToolLogin WITH Tools <- {"npm", "swift", "twine"}, Keys <-
  <<"x", "y">>, ToolFiles <- ToolFiles
I == INSTANCE ServiceCall WITH Forms <- Forms, Streams <- Streams, MaxCalls <- 2,
  CallAttempts <- 3, CallQuota <- 20, CallCost <- 5, TimeoutPrice <- 10
R == INSTANCE EndpointRules WITH Rulesets <- Rulesets, Requests <- Requests,
  Partitions <- Partitions, Attributes <- Attributes
M == INSTANCE Monitor WITH TreeOf <- TreeOf, Known <- {{1, 2}},
  Deployments <- Deployments, MaxMoves <- 2, MaxRefreshes <- 3
Q == INSTANCE Deploy WITH Targets <- DeployTargets, Appspecs <- DeployAppspecs,
  Least <- 2, Most <- 6, Headroom <- 2, PerMinute <- 2, MaxRepeats <- 1
V == INSTANCE Display WITH Jobs <- {"a", "b", "c"}, FileOf <- DisplayFile, MaxRows <- 1,
  MaxTicks <- 2
A == INSTANCE CommandLine WITH Lines <- CommandLines, Member <- LineMember, Required <- {"key"},
  Negates <- LineNegates, FileHolds <- <<"f", "g">>, Document <- LineDocument
B == INSTANCE YamlBlock WITH Pages <- YamlPages
H == INSTANCE Transfer WITH Scripts <- XferScripts, Disks <- XferDisks, Stores <- XferStores,
                         Buckets <- {"b", "c"}, MaxLinks <- 2, MaxHollow <- 1
J == INSTANCE Cluster WITH Sessions <- EmrSessions, MaxBoots <- 2
X == INSTANCE Body WITH Schemas <- BodySchemas, Upper <- Uppers, Calls <- BodyCalls
Z == INSTANCE Container WITH Libraries <- ModelLibraries, Decode <- ModelJson, Prelude <- ModelPrelude,
  CliName <- CliNames, Rules <- ModelRules, Cuts <- ModelCuts
AA == INSTANCE ModelLookup WITH Readers <- {1, 2}, Layouts <- ModelLayouts,
  Services <- {"s3api", "sts", "sst"},
  Fetched <- {"sts", "s3api"}, Updates <- ModelUpdates
AB == INSTANCE Invoke WITH Kinds <- InvokeKinds, Skeletons <- InvokeSkeletons,
  ErrorFormats <- {"enhanced", "legacy", "json"}, MaxEvents <- 2
AC == INSTANCE Wire WITH Dialogs <- WireDialogs, Pieces <- {1, 7, 1000},
  Wrongs <- {1, 4, 9, 13, 20, 33, 70}
AD == INSTANCE Attributes WITH Hauls <- AllHauls
waiterVars == <<waitAt, waiter, polls, waitEnd>>
digestWalkVars == <<inquiry, walkAt, naming, backfill, inBucket, digests, digest, lastStart,
                    publicKeys, covered, counts, digestSaid, logsSaid, walkTold, walkCode>>
profileChainVars == <<chainAt, config, env, ambient, explicit, profile, visited,
                      stack, creds>>
ssoSessionVars == <<cast, ssoAt, held, spent, opened, tokenFile, roleFile,
                    issued, rotates, refreshOf, ended, expiry, code, mishap,
                    crowded>>
catalogueVars == <<job, fetchAt, asset, handle, partial, installed, crashes,
                   shared>>
setupVars == <<team, todo, gone, heldDoc, there, reports, undone, hit, alone,
               overlap, retries>>
configVars == <<update, setAt, lines, text, was, filler, between>>
filterVars == <<filterAt, path, rules, rule, include, pi, ti, star, mark>>
loginVars == <<tool, loginAt, secret, granted, toolFile, legible, edited, first,
               blind, collided>>
callVars == <<form, callAt, calls, opToken, attempt, followed, allowance, lastCost,
              homeKnown, atHome, reply, frames, arrived, taken, handed,
              streamError, outfile, sentTimes, effects, served, callSaid>>
rulesVars == <<rulesAt, asked, ruleset, regionFor, levels, tested, bindings, place>>
monitorVars == <<monAt, view, display, epoch, appeared, latest, inactive, moves, refreshes,
                 interrupted, named, sources, trees, origins, managed, cached,
                 previous, announced>>
deployVars == <<deployAt, target, appspec, revisions, revision, deployment,
                polled, repeats>>
displayVars == <<displayAt, partsLeft, active, holder, filesDone, screen,
                 frameRows, term, cursorAt, summary, enabled, running, speaks,
                 linesUp, frame, ticks>>
lineVars == <<lineAt, line, next, parameters, surplus, positionals, document,
              input>>
yamlVars == <<yamlAt, page, rows, row, nest, anchors>>
xferVars == <<xferAt, script, disk, store, owned, scanning, pairs, lost,
              shifted, skips, hollow, atStart, endings>>
emrVars == <<emrAt, session, cluster, heard, sending, emrDone>>
bodyVars == <<bodyAt, exchange, given, onWire, inReply, bodyShown, bodySaid>>
shelfVars == <<library, image, cut, consulted, shelfAt>>
lookupVars == <<layout, earlier, reader>>
invokeVars == <<invoked, invokeAt, faults, errorFormat, requests, stdout,
                wrote, failure, stderr>>
talkVars == <<talk, wire, whole, buffer, wireAt, readOff, wireSaid>>
attributeVars == <<haul, haulAt, flagsLeft, opts, creating, kept, landed,
                   haulCode>>

-----------------------------------------------------------------------------
(* The variables of a machine that does not run. *)
PaginateParked ==
  /\ pageAt = "idle" /\ pages = <<>> /\ token = NoToken
  /\ limit = "parked" /\ request = "parked" /\ current = "parked"
  /\ pagesSeen = "parked" /\ results = "parked" /\ runs = "parked"
  /\ printed = <<>> /\ rewound = FALSE
WaiterParked ==
  /\ waitAt = "parked" /\ waiter = "parked" /\ polls = "parked"
  /\ waitEnd = "parked"
LogsTailParked ==
  /\ tailAt = "done" /\ follow = FALSE /\ log = {} /\ startTime = "parked"
  /\ nextToken = "parked" /\ answer = "parked" /\ more = "parked"
  /\ seen = "parked" /\ shown = [e \in Events |-> 0] /\ late = {}
ListingParked ==
  /\ listAt = "failed" /\ lsLine = "parked" /\ bucket = "parked"
  /\ cursor = "parked" /\ direct = "parked" /\ prefixes = "parked"
  /\ walking = "parked" /\ found = "parked" /\ listed = "parked"
  /\ listFailure = "parked" /\ emitted = <<>> /\ changes = "parked"
  /\ lsDirs = <<>> /\ lsNothing = "parked"
  /\ ever = {} /\ always = {}
SyncPlanParked ==
  /\ syncAt = "parked" /\ how = "parked" /\ source = "parked"
  /\ dest = "parked" /\ unreadable = "parked" /\ left = "parked"
  /\ right = "parked" /\ transfers = "parked" /\ deletes = "parked"
  /\ failed = "parked" /\ warned = "parked" /\ clock = "parked"
  /\ before = "parked" /\ began = "parked" /\ edits = "parked"
  /\ syncs = "parked" /\ steady = FALSE
DigestWalkParked ==
  /\ walkAt = "done" /\ inquiry = "parked" /\ naming = "parked"
  /\ backfill = "parked" /\ inBucket = "parked" /\ digests = "parked"
  /\ digest = "parked" /\ lastStart = "parked" /\ publicKeys = "parked"
  /\ covered = "parked" /\ counts = "parked" /\ digestSaid = "parked"
  /\ logsSaid = "parked" /\ walkTold = "parked" /\ walkCode = "parked"
TunnelParked ==
  /\ tunnel = Each("none") /\ sent = "parked" /\ eof = Each(FALSE)
  /\ local = "parked" /\ reading = "parked" /\ channel = "parked"
  /\ inputOpen = Each(TRUE) /\ closeSent = "parked" /\ up = "parked"
  /\ down = "parked" /\ peer = "parked" /\ got = Each(<<>>)
  /\ replied = Each(<<>>) /\ delivered = Each(<<>>)
ProfileChainParked ==
  /\ chainAt = "resolved" /\ config = "parked" /\ env = "parked"
  /\ ambient = "parked" /\ explicit = "parked" /\ profile = "parked"
  /\ visited = "parked" /\ stack = "parked" /\ creds = "parked"
SsoSessionParked ==
  /\ cast = <<>> /\ ssoAt = <<>> /\ held = "parked" /\ spent = "parked"
  /\ opened = "parked" /\ tokenFile = "parked" /\ roleFile = "parked"
  /\ issued = "parked" /\ rotates = "parked" /\ refreshOf = "parked"
  /\ ended = "parked" /\ expiry = "parked" /\ code = "parked"
  /\ mishap = "parked" /\ crowded = "parked"
CatalogueParked ==
  /\ job = "parked" /\ fetchAt = "parked" /\ asset = "parked"
  /\ handle = "parked" /\ partial = "parked" /\ installed = "parked"
  /\ crashes = "parked" /\ shared = "parked"
SetupParked ==
  /\ team = <<>> /\ todo = "parked" /\ gone = "parked"
  /\ heldDoc = "parked" /\ there = "parked" /\ reports = "parked"
  /\ undone = "parked" /\ hit = "parked" /\ alone = "parked"
  /\ overlap = "parked" /\ retries = "parked"
ConfigParked ==
  /\ update = "parked" /\ setAt = "parked" /\ lines = "parked"
  /\ text = "parked" /\ was = "parked" /\ filler = "parked"
  /\ between = "parked"
FilterParked ==
  /\ filterAt = "done" /\ path = "parked" /\ rules = "parked"
  /\ rule = "parked" /\ include = "parked" /\ pi = "parked" /\ ti = "parked"
  /\ star = "parked" /\ mark = "parked"
LoginParked ==
  /\ tool = "parked" /\ loginAt = "parked" /\ secret = "parked"
  /\ granted = "parked" /\ toolFile = "parked" /\ legible = "parked"
  /\ edited = "parked" /\ first = "parked" /\ blind = "parked"
  /\ collided = "parked"
CallParked ==
  /\ form = "parked" /\ callAt = "ended" /\ calls = "parked"
  /\ opToken = "parked" /\ attempt = "parked" /\ followed = "parked"
  /\ allowance = "parked" /\ lastCost = "parked" /\ homeKnown = "parked"
  /\ atHome = "parked" /\ reply = "parked" /\ frames = "parked"
  /\ arrived = "parked" /\ taken = "parked" /\ handed = "parked"
  /\ streamError = "parked" /\ outfile = "parked" /\ sentTimes = "parked"
  /\ effects = "parked" /\ served = "parked" /\ callSaid = "parked"
RulesParked ==
  /\ rulesAt = "done" /\ asked = "parked" /\ ruleset = "parked"
  /\ regionFor = "parked" /\ levels = "parked" /\ tested = "parked"
  /\ bindings = "parked" /\ place = "parked"
MonitorParked ==
  /\ monAt = "ended" /\ view = "parked" /\ display = "parked"
  /\ epoch = "parked" /\ appeared = "parked" /\ latest = "parked"
  /\ inactive = "parked" /\ moves = "parked" /\ refreshes = "parked"
  /\ interrupted = "parked" /\ named = "parked" /\ sources = "parked"
  /\ trees = "parked" /\ origins = "parked" /\ managed = "parked"
  /\ cached = "parked" /\ previous = "parked" /\ announced = "parked"
DeployParked ==
  /\ deployAt = "failed" /\ target = "parked" /\ appspec = "parked"
  /\ revisions = "parked" /\ revision = "parked" /\ deployment = "parked"
  /\ polled = "parked" /\ repeats = "parked"
DisplayParked ==
  /\ displayAt = [t \in {"main", "ticker"} |-> IF t = "main" THEN "over" ELSE "end"]
  /\ partsLeft = "parked" /\ active = "parked" /\ holder = "parked"
  /\ filesDone = "parked" /\ screen = "parked" /\ frameRows = "parked"
  /\ term = "parked" /\ cursorAt = "parked" /\ summary = "parked"
  /\ enabled = "parked" /\ running = "parked" /\ speaks = "parked"
  /\ linesUp = "parked" /\ frame = "parked" /\ ticks = "parked"
CommandLineParked ==
  /\ lineAt = "run" /\ line = "parked" /\ next = "parked"
  /\ parameters = "parked" /\ surplus = "parked" /\ positionals = "parked"
  /\ document = "parked" /\ input = "parked"
YamlBlockParked ==
  /\ yamlAt = "done" /\ page = "parked" /\ rows = "parked" /\ row = "parked"
  /\ nest = "parked" /\ anchors = "parked"
TransferParked ==
  /\ xferAt = "parked" /\ script = <<>> /\ disk = "parked" /\ store = "parked"
  /\ owned = "parked" /\ scanning = "parked" /\ pairs = "parked"
  /\ lost = "parked" /\ shifted = "parked" /\ skips = "parked" /\ hollow = "parked"
  /\ atStart = "parked" /\ endings = "parked"
ClusterParked ==
  /\ emrAt = "parked" /\ session = <<>> /\ cluster = "parked"
  /\ heard = "parked" /\ sending = "parked" /\ emrDone = "parked"
BodyParked ==
  /\ bodyAt = "parked" /\ exchange = "parked" /\ given = {} /\ onWire = {}
  /\ inReply = {} /\ bodyShown = {} /\ bodySaid = "parked"
ContainerParked ==
  /\ library = "parked" /\ image = "parked" /\ cut = "parked"
  /\ consulted = "parked" /\ shelfAt = "parked"
ModelLookupParked ==
  /\ layout = "parked" /\ earlier = "parked" /\ reader = <<>>
InvokeParked ==
  /\ invoked = "parked" /\ invokeAt = "parked" /\ faults = "parked"
  /\ errorFormat = "parked" /\ requests = "parked" /\ stdout = "parked"
  /\ wrote = "parked" /\ failure = "parked" /\ stderr = "parked"
WireParked ==
  /\ talk = "parked" /\ wire = "parked" /\ whole = "parked"
  /\ buffer = "parked" /\ wireAt = "parked" /\ readOff = "parked"
  /\ wireSaid = "parked"
AttributesParked ==
  /\ haul = "parked" /\ haulAt = "over" /\ flagsLeft = "parked"
  /\ opts = "parked" /\ creating = "parked" /\ kept = "parked"
  /\ landed = "parked" /\ haulCode = "parked"
BundleParked ==
  /\ bundleAt = "parked" /\ bundler = "parked" /\ skipHidden = "parked"
  /\ tree = "parked" /\ dirs = "parked" /\ files = "parked"
  /\ entries = "parked" /\ real = "parked" /\ body = "parked"
  /\ footer = "parked" /\ stored = "parked" /\ multipart = "parked"
  /\ partsSent = "parked" /\ constant = "parked" /\ fileEdits = "parked"

Init ==
  /\ cmd \in {"page", "wait", "tail", "list", "sync",
            "digests", "tunnel", "chain", "sso", "catalogue", "setup", "config",
            "filter", "login", "call", "endpoint", "monitor", "deploy",
            "display",
            "line",
            "yaml",
            "transfer",
            "emr",
            "body",
            "shelf",
            "models",
            "invoke",
            "wire",
            "haul", "bundle"}
  /\ IF cmd = "page" THEN PageInit ELSE PaginateParked
  /\ IF cmd = "wait" THEN W!WaitInit ELSE WaiterParked
  /\ IF cmd = "tail" THEN TailInit ELSE LogsTailParked
  /\ IF cmd = "list" THEN ListInit ELSE ListingParked
  /\ IF cmd = "sync" THEN SyncInit ELSE SyncPlanParked
  /\ IF cmd = "digests" THEN D!DigestInit ELSE DigestWalkParked
  /\ IF cmd = "tunnel" THEN TunnelInit ELSE TunnelParked
  /\ IF cmd = "chain" THEN C!ChainInit ELSE ProfileChainParked
  /\ IF cmd = "sso" THEN O!SsoInit ELSE SsoSessionParked
  /\ IF cmd = "catalogue" THEN K!CatInit ELSE CatalogueParked
  /\ IF cmd = "setup" THEN U!SetupInit ELSE SetupParked
  /\ IF cmd = "config" THEN E!ConfigInit ELSE ConfigParked
  /\ IF cmd = "filter" THEN G!FilterInit ELSE FilterParked
  /\ IF cmd = "login" THEN N!LoginInit ELSE LoginParked
  /\ IF cmd = "call" THEN I!CallInit ELSE CallParked
  /\ IF cmd = "endpoint" THEN R!RulesInit ELSE RulesParked
  /\ IF cmd = "monitor" THEN M!MonInit ELSE MonitorParked
  /\ IF cmd = "deploy" THEN Q!DeployInit ELSE DeployParked
  /\ IF cmd = "display" THEN V!DisplayInit ELSE DisplayParked
  /\ IF cmd = "line" THEN A!LineInit ELSE CommandLineParked
  /\ IF cmd = "yaml" THEN B!YamlInit ELSE YamlBlockParked
  /\ IF cmd = "transfer" THEN H!XferInit ELSE TransferParked
  /\ IF cmd = "emr" THEN J!EmrInit ELSE ClusterParked
  /\ IF cmd = "body" THEN X!BodyInit ELSE BodyParked
  /\ IF cmd = "shelf" THEN Z!ShelfInit ELSE ContainerParked
  /\ IF cmd = "models" THEN AA!LookupInit ELSE ModelLookupParked
  /\ IF cmd = "invoke" THEN AB!InvokeInit ELSE InvokeParked
  /\ IF cmd = "wire" THEN AC!WireInit ELSE WireParked
  /\ IF cmd = "haul" THEN AD!AttributesInit ELSE AttributesParked
  /\ IF cmd = "bundle" THEN BundleInit ELSE BundleParked

(* A step of one machine, and of no other. *)
OthersParked ==
  /\ UNCHANGED cmd
  /\ IF cmd = "page" THEN TRUE ELSE UNCHANGED pageVars
  /\ IF cmd = "wait" THEN TRUE ELSE UNCHANGED waiterVars
  /\ IF cmd = "tail" THEN TRUE ELSE UNCHANGED tailVars
  /\ IF cmd = "list" THEN TRUE ELSE UNCHANGED listVars
  /\ IF cmd = "sync" THEN TRUE ELSE UNCHANGED syncVars
  /\ IF cmd = "digests" THEN TRUE ELSE UNCHANGED digestWalkVars
  /\ IF cmd = "tunnel" THEN TRUE ELSE UNCHANGED tunnelVars
  /\ IF cmd = "chain" THEN TRUE ELSE UNCHANGED profileChainVars
  /\ IF cmd = "sso" THEN TRUE ELSE UNCHANGED ssoSessionVars
  /\ IF cmd = "catalogue" THEN TRUE ELSE UNCHANGED catalogueVars
  /\ IF cmd = "setup" THEN TRUE ELSE UNCHANGED setupVars
  /\ IF cmd = "config" THEN TRUE ELSE UNCHANGED configVars
  /\ IF cmd = "filter" THEN TRUE ELSE UNCHANGED filterVars
  /\ IF cmd = "login" THEN TRUE ELSE UNCHANGED loginVars
  /\ IF cmd = "call" THEN TRUE ELSE UNCHANGED callVars
  /\ IF cmd = "endpoint" THEN TRUE ELSE UNCHANGED rulesVars
  /\ IF cmd = "monitor" THEN TRUE ELSE UNCHANGED monitorVars
  /\ IF cmd = "deploy" THEN TRUE ELSE UNCHANGED deployVars
  /\ IF cmd = "display" THEN TRUE ELSE UNCHANGED displayVars
  /\ IF cmd = "line" THEN TRUE ELSE UNCHANGED lineVars
  /\ IF cmd = "yaml" THEN TRUE ELSE UNCHANGED yamlVars
  /\ IF cmd = "transfer" THEN TRUE ELSE UNCHANGED xferVars
  /\ IF cmd = "emr" THEN TRUE ELSE UNCHANGED emrVars
  /\ IF cmd = "body" THEN TRUE ELSE UNCHANGED bodyVars
  /\ IF cmd = "shelf" THEN TRUE ELSE UNCHANGED shelfVars
  /\ IF cmd = "models" THEN TRUE ELSE UNCHANGED lookupVars
  /\ IF cmd = "invoke" THEN TRUE ELSE UNCHANGED invokeVars
  /\ IF cmd = "wire" THEN TRUE ELSE UNCHANGED talkVars
  /\ IF cmd = "haul" THEN TRUE ELSE UNCHANGED attributeVars
  /\ IF cmd = "bundle" THEN TRUE ELSE UNCHANGED bundleVars

PaginateStep == cmd = "page" /\ PageNext /\ OthersParked
WaiterStep == cmd = "wait" /\ W!WaitNext /\ OthersParked
LogsTailStep == cmd = "tail" /\ TailNext /\ OthersParked
ListingStep == cmd = "list" /\ ListNext /\ OthersParked
SyncPlanStep == cmd = "sync" /\ SyncNext /\ OthersParked
DigestWalkStep == cmd = "digests" /\ D!DigestNext /\ OthersParked
TunnelStep == cmd = "tunnel" /\ TunnelNext /\ OthersParked
ProfileChainStep == cmd = "chain" /\ C!ChainNext /\ OthersParked
SsoSessionStep == cmd = "sso" /\ O!SsoNext /\ OthersParked
CatalogueStep == cmd = "catalogue" /\ K!CatNext /\ OthersParked
SetupStep == cmd = "setup" /\ U!SetupNext /\ OthersParked
ConfigStep == cmd = "config" /\ E!ConfigNext /\ OthersParked
FilterStep == cmd = "filter" /\ G!FilterNext /\ OthersParked
LoginStep == cmd = "login" /\ N!LoginNext /\ OthersParked
CallStep == cmd = "call" /\ I!CallNext /\ OthersParked
RulesStep == cmd = "endpoint" /\ R!RulesNext /\ OthersParked
MonitorStep == cmd = "monitor" /\ M!MonNext /\ OthersParked
DeployStep == cmd = "deploy" /\ Q!DeployNext /\ OthersParked
DisplayStep == cmd = "display" /\ V!DisplayNext /\ OthersParked
CommandLineStep == cmd = "line" /\ A!LineNext /\ OthersParked
YamlBlockStep == cmd = "yaml" /\ B!YamlNext /\ OthersParked
TransferStep == cmd = "transfer" /\ H!XferNext /\ OthersParked
ClusterStep == cmd = "emr" /\ J!EmrNext /\ OthersParked
BodyStep == cmd = "body" /\ X!BodyNext /\ OthersParked
ContainerStep == cmd = "shelf" /\ Z!ShelfNext /\ OthersParked
ModelLookupStep == cmd = "models" /\ AA!LookupNext /\ OthersParked
InvokeStep == cmd = "invoke" /\ AB!InvokeNext /\ OthersParked
WireStep == cmd = "wire" /\ AC!WireNext /\ OthersParked
AttributesStep == cmd = "haul" /\ AD!AttributesNext /\ OthersParked
BundleRun == cmd = "bundle" /\ BundleNext /\ OthersParked

Next ==
  \/ PaginateStep
  \/ WaiterStep
  \/ LogsTailStep
  \/ ListingStep
  \/ SyncPlanStep
  \/ DigestWalkStep
  \/ TunnelStep
  \/ ProfileChainStep
  \/ SsoSessionStep
  \/ CatalogueStep
  \/ SetupStep
  \/ ConfigStep
  \/ FilterStep
  \/ LoginStep
  \/ CallStep
  \/ RulesStep
  \/ MonitorStep
  \/ DeployStep
  \/ DisplayStep
  \/ CommandLineStep
  \/ YamlBlockStep
  \/ TransferStep
  \/ ClusterStep
  \/ BodyStep
  \/ ContainerStep
  \/ ModelLookupStep
  \/ InvokeStep
  \/ WireStep
  \/ AttributesStep
  \/ BundleRun

vars == <<cmd, pageVars, waiterVars, tailVars, listVars, syncVars,
          digestWalkVars, tunnelVars, profileChainVars, ssoSessionVars, catalogueVars,
          setupVars, configVars, filterVars, loginVars, callVars,
          rulesVars, monitorVars,
          deployVars,
          displayVars,
          lineVars,
          yamlVars,
          xferVars,
          emrVars,
          bodyVars,
          shelfVars,
          lookupVars,
          invokeVars,
          talkVars,
          attributeVars, bundleVars>>

(* What each machine's own module assumes. *)
Spec ==
  /\ Init /\ [][Next]_vars
  /\ WF_pageVars(cmd = "page" /\ Loop)
  /\ WF_tailVars(cmd = "tail" /\ TailStep)
  /\ WF_listVars(cmd = "list" /\ ListStep)
  /\ WF_digestWalkVars(cmd = "digests" /\ D!DigestNext)
  /\ WF_profileChainVars(cmd = "chain" /\ C!ChainNext)
  /\ WF_filterVars(cmd = "filter" /\ G!FilterNext)
  /\ WF_rulesVars(cmd = "endpoint" /\ R!RulesNext)
  /\ WF_monitorVars(cmd = "monitor" /\ M!MonStep)
  /\ WF_callVars(cmd = "call" /\ I!CallNext)
  /\ WF_deployVars(cmd = "deploy" /\ Q!DeployNext)
  /\ WF_lineVars(cmd = "line" /\ A!LineNext)
  /\ WF_yamlVars(cmd = "yaml" /\ B!YamlNext)
  /\ WF_xferVars(cmd = "transfer" /\ H!XferNext)
  /\ WF_emrVars(cmd = "emr" /\ J!Command)
  /\ WF_bodyVars(cmd = "body" /\ X!BodyNext)
  /\ WF_shelfVars(cmd = "shelf" /\ Z!ShelfNext)
  /\ WF_invokeVars(cmd = "invoke" /\ AB!InvokeNext)
  /\ \A r \in {1, 2} : WF_lookupVars(cmd = "models" /\ AA!ReaderStep(r))
  /\ WF_attributeVars(cmd = "haul" /\ AD!AttributesNext)
  /\ \A c \in Conns : /\ WF_tunnelVars(cmd = "tunnel" /\ ReaderStep(c))
                      /\ WF_tunnelVars(cmd = "tunnel" /\ PumpStep(c))
                      /\ WF_tunnelVars(cmd = "tunnel" /\ PeerTakes(c))
  /\ \A j \in {"a", "b", "c"} :
       WF_displayVars(cmd = "display" /\ (V!JobStep(j) \/ V!DrawStep(j)))
  /\ WF_displayVars(cmd = "display" /\ V!TickerStep)
  /\ WF_displayVars(cmd = "display" /\ V!MainStep)
  /\ \A p \in {1, 2} : WF_ssoSessionVars(cmd = "sso" /\ O!SsoStep(p))

-----------------------------------------------------------------------------
(* The properties of the machines, each of its own.  Those of Paginate,    *)
(* LogsTail, Listing, SyncPlan and Tunnel stand in their modules.          *)
WalkFindsDamage == cmd = "digests" => D!WalkFindsDamage

(* A command reports success only if what it reports is so: a waiter that  *)
(* ends, a series of calls that set something up, a call and the stream it opens, *)
(* an archive that leaves.                                                 *)
SuccessIsTrue ==
  /\ cmd = "wait" => W!WaitTells
  /\ cmd = "setup" => U!SetupTells
  /\ cmd = "call" => I!CallTells
  /\ cmd = "deploy" => Q!DeployTells
  /\ cmd = "transfer" => H!TransferTells
  /\ cmd = "invoke" => AB!InvokeTells
  /\ cmd = "bundle" => BundleKept

(* What a command makes of what it is given is what the definition it goes *)
(* by says: whose credentials a profile names, which entries filters leave,*)
(* where a service is, what a service that changes has at each poll.       *)
DecidesAsSpecified ==
  /\ cmd = "chain" => C!RightCredentials
  /\ cmd = "filter" => G!FilterAgrees
  /\ cmd = "endpoint" => R!RulesAgree
  /\ cmd = "display" => V!DisplayKept
  /\ cmd = "line" => A!LineMeans
  /\ cmd = "yaml" => B!ReadByColumns
  /\ cmd = "emr" => J!EmrAsAsked
  /\ cmd = "body" => X!BodyAsModelled
  /\ cmd = "shelf" => Z!ContainerReads
  /\ cmd = "wire" => AC!WireExact
  /\ cmd = "haul" => AD!AttributesHold
  /\ cmd = "monitor" => M!MonitorShows

(* The files that processes share: the two caches, the catalogue, the      *)
(* configuration and the files of other tools.                             *)
FilesKept ==
  /\ cmd = "sso" => O!SessionKept
  /\ cmd = "catalogue" => K!CatalogueWhole
  /\ cmd = "config" => E!SettingsKept
  /\ cmd = "models" => AA!ModelFound
  /\ cmd = "login" => N!LoginKept

(* Every command answers: what has an end comes to it and stays there, and *)
(* what goes on, as a log that is followed, comes to it again and again.   *)
CommandsAnswer ==
  []<>(/\ PageOver /\ TailUpToDate /\ TunnelOver /\ ListOver
       /\ D!WalkOver /\ C!ChainOver /\ O!SsoOver /\ G!FilterOver
       /\ I!CallOver /\ R!RulesOver /\ M!MonitorOver /\ Q!DeployOver
       /\ V!DisplayOver /\ A!LineOver
       /\ B!YamlOver
       /\ H!TransferOver
       /\ J!EmrOver
         /\ X!BodyOver
         /\ Z!ShelfOver
         /\ AA!LookupOver
         /\ AB!InvokeOver
         /\ AD!AttributesOver)
-----------------------------------------------------------------------------
(* What a comment or a doc of the code says and the code does not do, each *)
(* in a run of its machine alone.                                          *)
WaitSpec == (cmd = "wait" /\ Init) /\ [][Next]_vars
SyncAlone == (cmd = "sync" /\ Init) /\ [][Next]_vars

(* An error that a `retry` acceptor claims is waited out: waiters.rs.      *)
ClaimedErrorsRetried == cmd = "wait" => W!ClaimedErrorsRetried
===============================================================================
