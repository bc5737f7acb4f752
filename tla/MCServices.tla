--------------------------------- MODULE MCServices ---------------------------------
(* The parts of the program that share nothing with each other, on small      *)
(* instances: a behaviour is one of a single part, so that the states of the  *)
(* parts add up instead of multiplying.  The variables are slots that the     *)
(* part in question fills with its own; the others stay 0.                    *)
EXTENDS Integers, Sequences, FiniteSets

CONSTANTS a, b, c, None, Torn, ByHand, Directory, Missing, Malformed,
          Windows, MacOS, Deb, AppImage,
          Quote, Back, Dollar, Percent, Space, LetterS, Arg

VARIABLES part,       \* the part of the program a behaviour is about
          v1, v2, v3, v4, v5, v6, v7, v8, v9, v10, v11, v12, v13, v14, v15,
          v16, v17   \* its state
vars == <<part, v1, v2, v3, v4, v5, v6, v7, v8, v9, v10, v11, v12, v13, v14, v15, v16, v17>>

One == {a}
Two == {a, b}
Bytes == {"a", "2", "3", "4", "c", "x"}
Platforms == {Windows, MacOS, Deb, AppImage}
Kinds == {"install", "update", "upsert", "delete", "link", "stop"}

\* Settings of older versions, one aspect of the upgrade at a time.
Key(n, k, g) == [name |-> n, kind |-> k, grow |-> g]
Now ==
  [version |-> 15, upload |-> "default", show |-> "unset", mode |-> "unset",
   keep |-> FALSE, guard |-> "off", quick |-> <<>>, systemQuick |-> <<>>,
   keyboard |-> [upper |-> <<>>, pages |-> <<>>, pinned |-> -1],
   fonts |-> <<>>, actions |-> [rows |-> <<>>, enter |-> "none"],
   themes |-> <<>>, hidden |-> <<>>, number |-> 1]
Rows == {<<>>, <<Key("a", "send", 0)>>,
         <<Key("b", "old", 3), Key("a", "send", 95)>>}
Pages == {<<>>, <<<<>>>>, <<<<Key("a", "send", 14)>>, <<Key("b", "old", 1)>>>>,
          <<<<Key("a", "send", 0)>>, <<>>, <<Key("b", "send", 130)>>>>}
Font(n, q) == [name |-> n, quotes |-> q]
Files ==
  {[Now EXCEPT !.version = v, !.show = s, !.mode = m] :
     v \in {3, 4, 5}, s \in {"unset", "true", "false"}, m \in {"unset", "tab"}}
  \cup {[Now EXCEPT !.version = v, !.quick = q, !.systemQuick = r] :
           v \in {7, 8}, q \in Rows, r \in Rows}
  \cup {[Now EXCEPT !.version = v, !.keyboard = [upper |-> u, pages |-> p, pinned |-> 7]] :
           v \in {9, 10, 15}, u \in Rows, p \in Pages}
  \cup {[Now EXCEPT !.version = v, !.upload = u, !.keep = k, !.number = x] :
           v \in {1, 6, 15}, u \in {"empty", "legacy", "own"}, k \in BOOLEAN,
           x \in {-1, 1, 3}}
  \cup {[Now EXCEPT !.fonts = f] :
           f \in {<<Font("a", 1), Font("Menlo", 0), Font("b", 0)>>,
                  <<Font("a", 0), Font("a", 1)>>}}
Rows1 == <<Key("b", "send", 200)>>
Bodies ==
  {Now, [Now EXCEPT !.version = 8, !.quick = <<Key("b", "old", 3)>>],
   [Now EXCEPT !.keyboard = [upper |-> Rows1, pages |-> <<>>, pinned |-> 3]],
   [Now EXCEPT !.themes = <<[uuid |-> "t", colour |-> "short"],
                            [uuid |-> "t", colour |-> "lower"],
                            [uuid |-> "u", colour |-> "unreadable"]>>,
               !.hidden = <<"dark", "x">>,
               !.actions = [rows |-> Rows1, enter |-> "other"]]}

U8 == INSTANCE Utf8Forward WITH
          Bytes <- Bytes, MaxBatch <- 4, MaxSent <- 5, sent <- v1, out <- v2,
          tail <- v3
VS == INSTANCE VirtualScreen WITH
          Heights <- {0, 1, 2}, Widths <- {0, 1, 2}, Limit <- 1, MaxLines <- 2,
          MaxChanges <- 2, None <- None, rows <- v1, cols <- v2, buf <- v3,
          shown <- v4, scrollback <- v5, saved <- v6, line <- v7, open <- v8,
          plain <- v9, stale <- v10, cramped <- v11, fault <- v12,
          changes <- v13
LT == INSTANCE LayoutTree WITH
          Panes <- {"a", "b", "c"}, Terminals <- {"a", "b"},
          Tabs <- {"t", "u"},
          Sides <- {"left", "right", "bottom", "horizontal"}, NoPane <- "-",
          layout <- v1, active <- v2, reading <- v3
MC == INSTANCE MissionControl WITH
          Conns <- Two, TabOrder <- <<a, b>>, WorkspaceList <- <<c>>,
          None <- None, MaxOps <- 3, MaxTabSteps <- 2, open <- v1,
          workspace <- v2, selected <- v3, present <- v4, home <- v5,
          active <- v6, confirming <- v7, pending <- v8, seen <- v9,
          ops <- v10, tabSteps <- v11
CT == INSTANCE CommandTracking WITH
          Runs <- {"r", "s"}, MaxCommands <- 3, host <- v1, marks <- v2,
          typed <- v3, input <- v4, current <- v5, ended <- v6,
          tracking <- v7, pending <- v8, results <- v9, quiet <- v10,
          prompt <- v11, run <- v12, alone <- v13
EB == INSTANCE EventBus WITH
          Agents <- {"agent"}, Plugins <- {"plugin"}, Capacity <- 1,
          MaxEvents <- 3, MaxChanges <- 3, published <- v1, position <- v2,
          listening <- v3, since <- v4, sent <- v5, clientGot <- v6,
          wants <- v7, subscribed <- v8, leaving <- v9, changes <- v10
SS == INSTANCE SettingsStore WITH
          Requests <- Two, OldClients <- One, Workspaces <- {a, b, c},
          Paths <- Two, Conns <- One, None <- None, mem <- v1, file <- v2,
          list <- v3, listFile <- v4, req <- v5, last <- v6, overlap <- v7,
          unsaved <- v8, unlisted <- v9
SF == INSTANCE SettingsFile WITH
          Anchors <- {"Menlo"}, Torn <- Torn, Files <- Files,
          Bodies <- Bodies, FontCap <- 2, ThemeCap <- 2, file <- v1,
          mem <- v2, saved <- v3, origin <- v4
LS == INSTANCE LoginSessions WITH
          Codes <- One, Logins <- Two, Calls <- Two, MaxAttempts <- 2,
          RateLimit <- 1, Lifetimes <- {1, 2}, Throttle <- 1,
          CodeLifetime <- 1, None <- None, code <- v1, rate <- v2,
          spent <- v3, login <- v4, session <- v5, ended <- v6,
          lifetime <- v7, call <- v8
TS == INSTANCE TokenStore WITH
          Requests <- Two, Tokens <- Two, Expiring <- One, None <- None,
          tokens <- v1, revoked <- v2, expired <- v3, file <- v4, req <- v5,
          overlap <- v6, unsaved <- v7
CH == INSTANCE CommandHistory WITH
          Commands <- One, Pushes <- One, Deletes <- {c}, MaxWrites <- 1,
          file <- v1, event <- v2, entries <- v3, deleted <- v4, loader <- v5,
          call <- v6, shown <- v7, writes <- v8, raced <- v9, crossed <- v10
IS == INSTANCE InstalledFiles WITH
          Installs <- Two, Deletes <- {c}, None <- None, Torn <- Torn,
          ByHand <- ByHand, kind <- v1, inode <- v2, json <- v3, tmp <- v4,
          conf <- v5, job <- v6, installed <- v7, crossed <- v8, crashed <- v9
UP == INSTANCE Uploads WITH
          Calls <- Two, Clears <- {c}, Cap <- 1, Names <- 4, None <- None,
          uploads <- v1, files <- v2, managed <- v3, clock <- v4, call <- v5,
          crossed <- v6
WF == INSTANCE WorkspaceFiles WITH
          Names <- Two, Calls <- Two, Wheres <- {"local", "plugin", "remote"},
          MaxFiles <- 3, Nothing <- None, Directory <- Directory, tree <- v1,
          content <- v2, used <- v3, where <- v4, call <- v5
RR == INSTANCE RangeRead WITH
          MaxSize <- 3, MaxDownload <- 2, size <- v1, header <- v2,
          stage <- v3, len <- v4, answer <- v5
TP == INSTANCE Templates WITH
          Ids <- Two, Saves <- One, Deletes <- {c}, Lists <- {b},
          Terminals <- Two, files <- v1, index <- v2, req <- v3, apply <- v4,
          live <- v5, shown <- v6, overlap <- v7, cut <- v8, early <- v9
UC == INSTANCE UpdateCheck WITH
          Checks <- Two, Kinds <- One, TTL <- 1, Backoff <- 1,
          MaxBackoff <- 1, MaxTime <- 2, MaxVersion <- 1, None <- None,
          now <- v1, feed <- v2, ended <- v3, cache <- v4, holder <- v5,
          check <- v6
UD == INSTANCE UpdateDownload WITH
          Calls <- Two, Cancels <- {c}, Size <- 2, at <- v1, done <- v2,
          cancel <- v3, active <- v4, part <- v5, target <- v6, asks <- v7,
          owing <- v8, sized <- v9
SP == INSTANCE ShellProbe WITH
          Distros <- One, Requests <- Two, MaxProbes <- 3, None <- None,
          installed <- v1, next <- v2, slot <- v3, probe <- v4, ask <- v5
SC == INSTANCE SshConnect WITH
          Attempts <- One, Conns <- Two, MaxRounds <- 2, at <- v1,
          round <- v2, given <- v3, pending <- v4, prompts <- v5,
          answers <- v6, conn <- v7, poller <- v8, asked <- v9,
          session <- v10, tab <- v11, seen <- v12
DA == INSTANCE DesktopAttach WITH
          MaxSpawns <- 3, MaxInputs <- 2, pc <- v1, spawns <- v2, last <- v3,
          tauri <- v4, clients <- v5, forward <- v6, told <- v7, hook <- v8,
          close <- v9, heard <- v10, typed <- v11, tx <- v12, inbox <- v13,
          writer <- v14, batch <- v15, written <- v16
WN == INSTANCE WindowActions WITH
          Callers <- Two, MaxHides <- 2, tray <- v1, window <- v2,
          visible <- v3, phase <- v4, pc <- v5, jobs <- v6, owed <- v7,
          hides <- v8
MQ == INSTANCE McpRequests WITH
          Requests <- Two, Savers <- {c}, Streams <- {"s"},
          Endpoint <- "endpoint", enabled <- v1, kind <- v2, notes <- v3,
          at <- v4, guards <- v5, queue <- v6, clients <- v7, sent <- v8,
          gone <- v9, log <- v10, from <- v11
AU == INSTANCE Autostart WITH
          Calls <- One, Platforms <- Platforms, Windows <- Windows,
          MacOS <- MacOS, Deb <- Deb, AppImage <- AppImage, Places <- Two,
          Missing <- Missing, Malformed <- Malformed, MaxChanges <- 2,
          platform <- v1, place <- v2, evidence <- v3, tray <- v4,
          entry <- v5, lock <- v6, pc <- v7, enabled <- v8, trayThen <- v9,
          target <- v10, written <- v11, inForce <- v12, changes <- v13
DE == INSTANCE DesktopExec WITH
          Quote <- Quote, Back <- Back, Dollar <- Dollar, Percent <- Percent,
          Space <- Space, LetterS <- LetterS, Arg <- Arg, MaxLength <- 5,
          path <- v1
RS == INSTANCE SessionResize WITH
          Clients <- Two, Joining <- One, Sizes <- {"small", "large"},
          Start <- "small", None <- None, MaxRequests <- 2, MaxWrites <- 2,
          pty <- v1, size <- v2, screen <- v3, writing <- v4, writes <- v5,
          joined <- v6, request <- v7, changed <- v8, requests <- v9,
          debounce <- v10, handshake <- v11, replay <- v12
AR == INSTANCE AgentRuns WITH
          HttpRuns <- {"h", "i", "j"}, SocketRuns <- {"s"}, Closers <- Two,
          Workers <- 3, MaxConcurrentRuns <- 2, pc <- v1, slots <- v2,
          closer <- v3, lost <- v4
PO == INSTANCE PluginOps WITH
          Managed <- {"m"}, Sockets <- {"s"}, Execs <- {"e"}, Pids <- {1},
          Ops <- One, Kinds <- Kinds, Versions <- {1, 2}, None <- None,
          disk <- v1, backup <- v2, registry <- v3, table <- v4, proc <- v5,
          ack <- v6, op <- v7, watcher <- v8, dirty <- v9, seen <- v10,
          used <- v11, boot <- v12
FW == INSTANCE FileWatch WITH
          Conns <- Two, MaxGens <- 2, MaxChanges <- 2, entry <- v1,
          gens <- v2, task <- v3, events <- v4, at <- v5, sub <- v6,
          box <- v7, owed <- v8, changes <- v9
DQ == INSTANCE DesktopQuit WITH
          Requests <- Two, Sessions <- Two, phase <- v1, current <- v2,
          window <- v3, emitted <- v4, timers <- v5, cleanup <- v6,
          onMain <- v7, todo <- v8, live <- v9, born <- v10, file <- v11,
          writer <- v12, built <- v13, exit <- v14
SY == INSTANCE SyncConnection WITH
          Capacity <- 1, MaxChanges <- 2, version <- v1, cast <- v2,
          listed <- v3, phase <- v4, rx <- v5, bridge <- v6, fwd <- v7,
          out <- v8, writer <- v9, frame <- v10, pinging <- v11,
          missed <- v12, pong <- v13, shutdown <- v14, client <- v15,
          snap <- v16, got <- v17

\* The variables a part does not need.
Off17 == v17 = 0
Off16 == v16 = 0 /\ Off17
Off15 == v15 = 0 /\ Off16
Off14 == v14 = 0 /\ Off15
Off13 == v13 = 0 /\ Off14
Off12 == v12 = 0 /\ Off13
Off11 == v11 = 0 /\ Off12
Off10 == v10 = 0 /\ Off11
Off9 == v9 = 0 /\ Off10
Off8 == v8 = 0 /\ Off9
Off7 == v7 = 0 /\ Off8
Off6 == v6 = 0 /\ Off7
Off5 == v5 = 0 /\ Off6
Off4 == v4 = 0 /\ Off5
Off3 == v3 = 0 /\ Off4
Off2 == v2 = 0 /\ Off3
Same17 == UNCHANGED v17
Same16 == UNCHANGED v16 /\ Same17
Same15 == UNCHANGED v15 /\ Same16
Same14 == UNCHANGED v14 /\ Same15
Same13 == UNCHANGED v13 /\ Same14
Same12 == UNCHANGED v12 /\ Same13
Same11 == UNCHANGED v11 /\ Same12
Same10 == UNCHANGED v10 /\ Same11
Same9 == UNCHANGED v9 /\ Same10
Same8 == UNCHANGED v8 /\ Same9
Same7 == UNCHANGED v7 /\ Same8
Same6 == UNCHANGED v6 /\ Same7
Same5 == UNCHANGED v5 /\ Same6
Same4 == UNCHANGED v4 /\ Same5
Same3 == UNCHANGED v3 /\ Same4
Same2 == UNCHANGED v2 /\ Same3

\* The request on the plugin installs another version than is there at the start.
Init ==
  \/ part = "utf8" /\ U8!Init /\ Off4
  \/ part = "screen" /\ VS!Init /\ Off14
  \/ part = "layouts" /\ LT!Init /\ Off4
  \/ part = "overview" /\ MC!Init /\ Off12
  \/ part = "commands" /\ CT!Init /\ Off14
  \/ part = "events" /\ EB!Init /\ Off11
  \/ part = "settings" /\ SS!Init /\ Off10
  \/ part = "upgrade" /\ SF!Init /\ Off5
  \/ part = "logins" /\ LS!Init /\ Off9
  \/ part = "tokens" /\ TS!Init /\ Off8
  \/ part = "history" /\ CH!Init /\ Off11
  \/ part = "installs" /\ IS!Init /\ Off10
  \/ part = "uploads" /\ UP!Init /\ Off7
  \/ part = "files" /\ WF!Init /\ Off6
  \/ part = "ranges" /\ RR!Init /\ Off6
  \/ part = "templates" /\ TP!Init /\ Off10
  \/ part = "updates" /\ UC!Init /\ Off7
  \/ part = "download" /\ UD!Init /\ Off10
  \/ part = "probes" /\ SP!Init /\ Off6
  \/ part = "logon" /\ SC!Init /\ Off13
  \/ part = "attach" /\ DA!Init /\ Off17
  \/ part = "window" /\ WN!Init /\ Off9
  \/ part = "mcp" /\ MQ!Init /\ Off12
  \/ part = "autostart" /\ AU!Init /\ Off14
  \/ part = "entry" /\ DE!Init /\ Off2
  \/ part = "resize" /\ RS!Init /\ Off13
  \/ part = "agents" /\ AR!Init /\ Off5
  \/ part = "plugins" /\ PO!Init /\ (\A o \in One : v7[o].v = 2) /\ Off13
  \/ part = "watch" /\ FW!Init /\ Off10
  \/ part = "quit" /\ DQ!Init /\ Off15
  \/ part = "sync" /\ SY!Init

Next ==
  /\ UNCHANGED part
  /\ \/ part = "utf8" /\ U8!Recv /\ Same4
     \/ part = "screen" /\ VS!Next /\ Same14
     \/ part = "layouts" /\ LT!Next /\ Same4
     \/ part = "overview" /\ MC!Next /\ Same12
     \/ part = "commands" /\ CT!Next /\ Same14
     \/ part = "events" /\ EB!Next /\ Same11
     \/ part = "settings" /\ SS!Next /\ Same10
     \/ part = "upgrade" /\ SF!Next /\ Same5
     \/ part = "logins" /\ LS!Next /\ Same9
     \/ part = "tokens" /\ TS!Next /\ Same8
     \/ part = "history" /\ CH!Next /\ Same11
     \/ part = "installs" /\ IS!Next /\ Same10
     \/ part = "uploads" /\ UP!Next /\ Same7
     \/ part = "files" /\ WF!Next /\ Same6
     \/ part = "ranges" /\ RR!Next /\ Same6
     \/ part = "templates" /\ TP!Next /\ Same10
     \/ part = "updates" /\ UC!Next /\ Same7
     \/ part = "download" /\ UD!Next /\ Same10
     \/ part = "probes" /\ SP!Next /\ Same6
     \/ part = "logon" /\ SC!Next /\ Same13
     \/ part = "attach" /\ DA!Next /\ Same17
     \/ part = "window" /\ WN!Next /\ Same9
     \/ part = "mcp" /\ MQ!Next /\ Same12
     \/ part = "autostart" /\ AU!Next /\ Same14
     \/ part = "entry" /\ DE!Next /\ Same2
     \/ part = "resize" /\ RS!Next /\ Same13
     \/ part = "agents" /\ AR!Next /\ Same5
     \/ part = "plugins" /\ PO!Next /\ Same13
     \/ part = "watch" /\ FW!Next /\ Same10
     \/ part = "quit" /\ DQ!Next /\ Same15
     \/ part = "sync" /\ SY!Next
\* What the modules ask of their constants.
ASSUME Assumptions ==
  /\ U8!ByteAssumption /\ U8!BoundAssumption /\ VS!SizeAssumption
  /\ LT!PanesAssumption /\ LT!SidesAssumption /\ CT!MaxCommandsAssumption
  /\ EB!BoundsAssumption /\ SS!PathsAssumption /\ LS!NumbersAssumption
  /\ UP!NamesAssumption /\ UC!TimesAssumption /\ AR!CountsAssumption
  /\ RS!SizeAssumption /\ RS!ClientAssumption /\ RS!BoundAssumption


\* The parts with tasks and threads that the runtime and the operating system
\* keep going, and the steps of the i-th task of each.
Tasks == {"resize", "agents", "plugins", "watch", "quit", "sync"}
Step(i) ==
  \/ /\ part = "resize"
     /\ \/ i = 1 /\ RS!Debouncer
        \/ i = 2 /\ RS!EndWrite
        \/ i \in 3 .. 4 /\ RS!Handshake(<<a, b>>[i - 2])
     /\ Same13
  \/ /\ part = "agents"
     /\ \/ i \in 1 .. 4 /\ AR!RunStep(<<"h", "i", "j", "s">>[i])
        \/ i \in 5 .. 6 /\ AR!CloserStep(<<a, b>>[i - 4])
     /\ Same5
  \/ /\ part = "plugins"
     /\ \/ i \in 1 .. 3 /\ PO!Supervise(<<"m", "s", "e">>[i])
        \/ i = 4 /\ PO!OpStep(a)
        \/ i = 5 /\ PO!Watch
        \/ i = 6 /\ PO!Seed
     /\ Same13
  \/ /\ part = "watch"
     /\ \/ i \in 1 .. 2   /\ FW!StartWatching(i)
        \/ i \in 3 .. 4   /\ FW!Handle(i - 2)
        \/ i \in 5 .. 6   /\ FW!End(i - 4)
        \/ i \in 7 .. 8   /\ FW!Receive(<<a, b>>[i - 6])
        \/ i \in 9 .. 10  /\ FW!SeeClosed(<<a, b>>[i - 8])
        \/ i \in 11 .. 12 /\ FW!Unsubscribe(<<a, b>>[i - 10])
     /\ Same10
  \/ /\ part = "quit"
     /\ \/ i = 1 /\ DQ!Flush
        \/ i = 2 /\ DQ!Collect
        \/ i = 3 /\ DQ!Finish
        \/ i = 4 /\ DQ!Exit
        \/ i \in 5 .. 6 /\ DQ!Deadline(<<a, b>>[i - 4])
        \/ i \in 7 .. 8 /\ DQ!CloseNext(<<a, b>>[i - 6])
     /\ Same15
  \/ /\ part = "sync"
     /\ \/ i = 1 /\ SY!BroadcastSample
        \/ i = 2 /\ SY!Snapshot
        \/ i = 3 /\ SY!GiveUp
        \/ i = 4 /\ SY!Unbridge
        \/ i = 5 /\ SY!Forward
        \/ i = 6 /\ SY!Leave
        \/ i = 7 /\ SY!TakeFrame
        \/ i = 8 /\ SY!SendFails

Fairness == \A i \in 1 .. 12 : WF_vars(UNCHANGED part /\ Step(i))

Spec     == Init /\ [][Next]_vars
TaskInit == Init /\ part \in Tasks
TaskSpec == TaskInit /\ [][Next]_vars /\ Fairness

-----------------------------------------------------------------------------
(* The state of every part has its type.                                     *)
TypeOK ==
  /\ part = "utf8" => U8!TypeOK
  /\ part = "screen" => VS!TypeOK
  /\ part = "layouts" => LT!TypeOK
  /\ part = "overview" => MC!TypeOK
  /\ part = "commands" => CT!TypeOK
  /\ part = "events" => EB!TypeOK
  /\ part = "settings" => SS!TypeOK
  /\ part = "logins" => LS!TypeOK
  /\ part = "tokens" => TS!TypeOK
  /\ part = "history" => CH!TypeOK
  /\ part = "installs" => IS!TypeOK
  /\ part = "uploads" => UP!TypeOK
  /\ part = "files" => WF!TypeOK
  /\ part = "templates" => TP!TypeOK
  /\ part = "updates" => UC!TypeOK
  /\ part = "download" => UD!TypeOK
  /\ part = "probes" => SP!TypeOK
  /\ part = "logon" => SC!TypeOK
  /\ part = "attach" => DA!TypeOK
  /\ part = "window" => WN!TypeOK
  /\ part = "mcp" => MQ!TypeOK
  /\ part = "autostart" => AU!TypeOK
  /\ part = "resize" => RS!TypeOK
  /\ part = "agents" => AR!TypeOK
  /\ part = "plugins" => PO!TypeOK
  /\ part = "watch" => FW!TypeOK
  /\ part = "quit" => DQ!TypeOK
  /\ part = "sync" => SY!TypeOK

(* What the terminal sends arrives in the history and on the screen: no      *)
(* character is broken between two reads (pty.rs), no line that leaves the   *)
(* screen misses the scrollback and every index the code computes is inside  *)
(* its row, unless a cursor was saved before the screen shrank or a client   *)
(* asked for no rows, no columns or a single column (vt_screen), the screen  *)
(* has the size of the last request (Session::resize); and the tree of panes *)
(* shows every pane once, in the order in which they were arranged           *)
(* (layout.rs).                                                              *)
ShownAsReceived ==
  /\ part = "utf8" => U8!Utf8Intact
  /\ part = "screen" => VS!HistoryKept /\ VS!IndexInBounds
  /\ part = "resize" => RS!RestsAtLastRequest
  /\ part = "layouts" => LT!ReadsAsArranged /\ LT!ActiveIsShown

(* When no request is under way, the files hold what memory holds (settings, *)
(* workspaces, agent tokens); settings of any older version come to rest in  *)
(* one load and lose none of the keys the user made (settings/io.rs); the    *)
(* download that is announced as finished is whole, unless the server never  *)
(* said how long it is (update_download.rs); and lists agree with what they  *)
(* list, when what changes one races what changes the other: shell history   *)
(* and the clients' copies of it, installed themes and languages, the index  *)
(* of the templates and the tabs made of one, but for a template of which    *)
(* the save or the removal was cut short by a failure, the directories of a  *)
(* workspace and the files in them.                                          *)
StoresKeep ==
  /\ part = "settings" => SS!SettingsSaved /\ SS!WorkspacesSaved
  /\ part = "tokens" => TS!TokensSaved
  /\ part = "upgrade" => SF!StartsSettle /\ SF!KeysKept
  /\ part = "download" => UD!TargetIsWhole
  /\ part = "history" => CH!DeletedStaysAway /\ CH!ClientsShowEntries
  /\ part = "installs" => IS!ListsWhatWasInstalled
  /\ part = "files" => WF!TreeIsSound
  /\ part = "templates" => TP!AllListed /\ TP!AppliedWhole

(* What is decided in several steps is true when it is answered: a login     *)
(* code or session that ended is not accepted again, a cached update or a    *)
(* shared probe is as recent as it says, one probe runs at a time, a shell   *)
(* of a listed SSH session is there, a slot is taken by a run or lost by a   *)
(* hang-up, a range has exactly its bytes, autostart is as it was reported,  *)
(* and no MCP tool runs once MCP is switched off.                            *)
AnswersHold ==
  /\ part = "logins" => LS!EndForGood
  /\ part = "updates" => UC!AnswersAreRecent
  /\ part = "probes" => SP!OneProbe /\ SP!ProbedSinceAsked
  /\ part = "logon" => SC!AnswersFit /\ SC!ListedMeansLive
  /\ part = "agents" => AR!SlotsAreRunsAndLosses
  /\ part = "ranges" => RR!PartsAreExact
  /\ part = "autostart" => AU!AnswersHold
  /\ part = "mcp" => MQ!HandledWhileEnabled

(* What is sent to somebody reaches him, once and in order: an event the     *)
(* connections that asked for it, a result the run that asked, a change a    *)
(* client that has a snapshot, the session's output and exit the page that   *)
(* shows it and what is typed there the session, an argument the program in  *)
(* the desktop entry, an answer the open streams of MCP, the window of the   *)
(* desktop program the user who asked for it.                                *)
ReachesAddressee ==
  /\ part = "events" => EB!ForwardedOnce
  /\ part = "commands" => CT!NotBeforeItsEnd
  /\ part = "sync" => SY!NoGaps
  /\ part = "attach" => DA!PageHasItsClient /\ DA!InputKept
  /\ part = "entry" => DE!ExecRoundTrips
  /\ part = "mcp" => MQ!StreamsHaveAnswers
  /\ part = "window" => WN!RequestsShow

(* No step takes from another request what it made: the files of an upload   *)
(* are there whole or, but for those a failed call could not take back, not  *)
(* at all; new names replace no file; what changes a plugin's directory,     *)
(* the removal of a broken link apart, does so when each of its processes    *)
(* has ended or was killed and given up on; and the overview highlights a    *)
(* tab of the workspace it shows.                                            *)
StepsTakeNothing ==
  [][/\ part = "uploads" => UP!AllOrNothing
     /\ part = "files" => WF!NothingIsReplaced
     /\ part = "plugins" => PO!ChangesMeetNoProcess
     /\ part = "overview" => MC!HighlightIsShown]_vars

-----------------------------------------------------------------------------
(* Runs of the agent API and the handlers that wait for them end (agent.rs), *)
(* so does a quit, whether the page answers or not (shutdown.rs); the        *)
(* debounce task always comes to an end with the resizes it was woken for,   *)
(* and a snapshot request ends however long input is written (pty.rs).       *)
Over(i) ==
  /\ part = "agents" => IF i <= 4 THEN AR!Over(<<"h", "i", "j", "s">>[i])
                        ELSE AR!Served(<<a, b>>[i - 4])
  /\ part = "quit" => DQ!Quit
  /\ part = "resize" => IF i <= 2 THEN RS!Shaken(<<a, b>>[i]) ELSE RS!Applied
RequestsEnd == \A i \in 1 .. 6 : []<>Over(i)

(* A change of a file reaches the connections that watch it or they are      *)
(* closed, a client that stops reading loses its connection, and the plugin  *)
(* registry comes to show what is installed.                                 *)
ListenersCatchUp ==
  /\ \A d \in Two : []<>(part = "watch" => FW!Paid(d))
  /\ []<>(part = "sync" => SY!Dropped)
  /\ <>[](part = "plugins" => PO!UpToDate)
==============================================================================
