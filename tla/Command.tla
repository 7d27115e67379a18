------------------------------ MODULE Command ------------------------------
(***************************************************************************)
(* The command line (main.go, pkg/util, cmd/kubectl-resource-view): from   *)
(* the arguments to the exit status, through Complete, Validate, the       *)
(* selectors, the discovery of the metrics API and the call that gathers   *)
(* the rows, of which all that is known here is that it implements Gather. *)
(* The columns of the rows (pkg/kube/kube.go) and of their heading         *)
(* (pkg/writer/tablewriter.go) are made apart, each with a loop over the   *)
(* types asked for.                                                        *)
(***************************************************************************)
EXTENDS Naturals, SequencesExt

CONSTANTS
  Commands,    \* which of "node", "pod", "none", "version" and "other" are run
  TypeFlags,   \* values of --type, as the sequences of their comma-separated parts
  Item         \* names of nodes or pods that may be found

ASSUME CommandAssumption ==
  /\ Commands \subseteq {"node", "pod", "none", "version", "other"}
  /\ <<"">> \notin TypeFlags /\ \A f \in TypeFlags : f \in Seq(Range(f))

Names     == {"", "NAME"}
Selectors == {"", "good", "bad"}
Options   == [selector : Selectors, fieldSelector : Selectors, type : TypeFlags,
              sortBy : {"", "cpu", "memory", "other"}]

VARIABLES
  command,       \* what the command line names: a subcommand, none, --version
  args,
  options,       \* the flags
  resourceName,  \* o.ResourceName
  resourceType,  \* o.ResourceTypeslice
  stage,         \* how far Run has come
  request,       \* what the metrics API was asked for: a NAME, or selectors
  asked, order, found, expired, faulty, answer,  \* the call, see Gather
  row,           \* the columns of the rows
  header,        \* the columns of the heading
  k,             \* types done in the loop over them
  stdout,        \* what is printed: nothing yet, help, the version or a table
  stderr,        \* the messages printed
  status         \* exit status, once the stage is "exited"

gatherVars == <<asked, order, found, expired, faulty, answer>>
inputs  == <<command, args, options>>
parsed  == <<resourceName, resourceType>>
columns == <<row, header, k>>
printed == <<stdout, stderr, status>>
vars == <<inputs, parsed, stage, request, gatherVars, columns, printed>>

Call == INSTANCE Gather

\* o.ResourceTypeslice: nil at first, and one empty part by default.
TypeSlices == TypeFlags \cup {<<>>, <<"">>}

NoRequest == [name |-> "", selector |-> "", fieldSelector |-> ""]
NoFlags   == [selector |-> "", fieldSelector |-> "", type |-> <<>>, sortBy |-> ""]
Stages    == {"execute", "complete", "validate", "parse", "discover", "gather",
              "heading", "exited"}

\* The columns.  Cells are named for the quantity they show.
NodeCpu    == <<"CPU USE", "CPU REQ", "CPU REQ(%)", "CPU LIM", "CPU LIM(%)">>
NodeMemory == <<"MEM USE", "MEM REQ", "MEM REQ(%)", "MEM LIM", "MEM LIM(%)">>
NodeGpu    == <<"NVIDIA/GPU REQ", "NVIDIA/GPU REQ(%)", "NVIDIA/GPU LIM",
                "NVIDIA/GPU LIM(%)">>
NodePods   == <<"Pod Capacity", "Pod(%)">>
PodCpu     == <<"CPU USE", "CPU USE(%)", "CPU REQ", "CPU LIM">>
PodMemory  == <<"MEM USE", "MEM USE(%)", "MEM REQ", "MEM LIM">>
PodGpu     == <<"NVIDIA/GPU REQ", "NVIDIA/GPU LIM">>

Headings == {"NODE", "NAMESPACE", "POD NAME", "PodCount (%)"}
              \cup UNION {Range(s) : s \in {NodeCpu, NodeMemory, NodeGpu, NodePods,
                                           PodCpu, PodMemory, PodGpu}}

TypeOK ==
  /\ command \in Commands
  /\ args \in Seq(Names)
  /\ options \in Options \cup {NoFlags}
  /\ resourceName \in Names
  /\ resourceType \in TypeSlices
  /\ stage \in Stages
  /\ stage \in {"parse", "discover", "gather", "heading"} => resourceType # <<>>
  /\ request \in [name : Names, selector : Selectors \ {"bad"},
                  fieldSelector : Selectors \ {"bad"}]
  /\ row \in Seq(Headings) /\ header \in Seq(Headings)
  /\ k \in 0..Len(resourceType)
  /\ stdout \in {"", "help", "version", "table"}
  /\ stderr \subseteq {"error", "timed out", "no resources"}
  /\ status \in 0..1

\* "node" has no --field-selector.
Init ==
  /\ command \in Commands
  /\ IF command \in {"node", "pod"}
     THEN /\ args \in {<<>>} \cup [1..1 -> Names] \cup [1..2 -> Names]
          /\ options \in Options
          /\ command = "node" => options.fieldSelector = ""
     ELSE args = <<>> /\ options = NoFlags
  /\ resourceName = "" /\ resourceType = <<>>
  /\ stage = "execute"
  /\ request = NoRequest
  /\ Call!Init
  /\ row = <<>> /\ header = <<>> /\ k = 0
  /\ stdout = "" /\ stderr = {} /\ status = 0

\* CheckErr of kubectl, or of main.go for what cobra refuses: say so and exit.
Fail(message) ==
  /\ stage' = "exited" /\ status' = 1
  /\ stderr' = stderr \cup {message}
  /\ UNCHANGED <<inputs, parsed, request, gatherVars, columns, stdout>>

Show(text) ==
  /\ stage' = "exited" /\ status' = 0
  /\ stdout' = text
  /\ UNCHANGED <<inputs, parsed, request, gatherVars, columns, stderr>>

\* No error: Run goes on.
Enter(s) ==
  /\ stage' = s
  /\ UNCHANGED <<inputs, request, gatherVars, columns, printed>>

-----------------------------------------------------------------------------
\* Cobra finds the subcommand and parses its flags; without one help is shown.
\* --version is a flag only of a build that was given a version.
Execute ==
  /\ stage = "execute"
  /\ \/ command \in {"node", "pod"} /\ Enter("complete") /\ UNCHANGED parsed
     \/ command = "none" /\ Show("help")
     \/ command = "version" /\ Show("version")
     \/ Fail("error")

\* At most one argument; the clients are made, or their configuration is wrong.
Complete ==
  /\ stage = "complete"
  /\ \/ /\ Len(args) <= 1
        /\ resourceName' = IF args = <<>> THEN "" ELSE args[1]
        /\ Enter("validate") /\ UNCHANGED resourceType
     \/ Fail("error")

\* nodeResourceType and podResourceType
Offered == IF command = "node" THEN {"cpu", "memory", "pod", "gpu"}
           ELSE {"cpu", "memory", "gpu"}

\* strings.Split gives one empty part for the empty string.
MutSplit(flag) == flag
Split(flag) == IF flag = <<>> THEN <<"">> ELSE flag

MutTypesAccepted == TRUE
TypesAccepted == options.type # <<>> => Range(options.type) \subseteq Offered

MutOneFilter == TRUE
OneFilter == resourceName = "" \/ options.selector = ""

Validate ==
  /\ stage = "validate"
  /\ IF options.sortBy # "other" /\ OneFilter /\ TypesAccepted
     THEN /\ resourceType' = Split(options.type)
          /\ Enter("parse") /\ UNCHANGED resourceName
     ELSE Fail("error")

ParseSelectors ==
  /\ stage = "parse"
  /\ IF "bad" \notin {options.selector, options.fieldSelector}
     THEN Enter("discover") /\ UNCHANGED parsed
     ELSE Fail("error")

\* The discovery may fail, or find no metrics API of a supported version.
Discover ==
  /\ stage = "discover"
  /\ (Enter("gather") /\ UNCHANGED parsed) \/ Fail("error")

\* The thirty seconds of "pod" start before its selectors are parsed, those of
\* "node" after the discovery.
TimerFires ==
  /\ stage = "gather" \/ (command = "pod" /\ stage \in {"parse", "discover"})
  /\ Call!Expire
  /\ UNCHANGED <<inputs, parsed, stage, request, columns, printed>>

-----------------------------------------------------------------------------
(* The columns, type by type.                                              *)

\* The switch on a type; anything that is not a type is the default case.
NodeCells(t) ==
  CASE t = "cpu" -> NodeCpu [] t = "memory" -> NodeMemory [] t = "gpu" -> NodeGpu
    [] t = "pod" -> NodePods
    [] OTHER -> NodeCpu \o NodeMemory \o NodeGpu \o NodePods

MutPodCells(t) ==
  CASE t = "cpu" -> PodCpu [] t = "memory" -> PodMemory [] t = "gpu" -> PodGpu
    [] OTHER -> PodCpu \o PodGpu \o PodMemory
PodCells(t) ==
  CASE t = "cpu" -> PodCpu [] t = "memory" -> PodMemory [] t = "gpu" -> PodGpu
    [] OTHER -> PodCpu \o PodMemory \o PodGpu

NodeHeader(t) ==
  CASE t = "cpu" -> NodeCpu [] t = "memory" -> NodeMemory [] t = "gpu" -> NodeGpu
    [] t = "pod" -> NodePods
    [] OTHER -> NodeCpu \o NodeMemory \o NodeGpu \o <<"PodCount (%)">>

PodHeader(t) ==
  CASE t = "cpu" -> PodCpu [] t = "memory" -> PodMemory [] t = "gpu" -> PodGpu
    [] OTHER -> PodCpu \o PodMemory \o PodGpu

-----------------------------------------------------------------------------
(* The rows are gathered.                                                  *)

MoreTypes == k < Len(resourceType)

\* Get by NAME, which finds one or fails, or List by selectors; "pod" says when
\* there are none.
Ask ==
  /\ stage = "gather" /\ Call!Ask
  /\ resourceName # "" => Len(order') = 1
  /\ request' = IF resourceName # "" THEN [NoRequest EXCEPT !.name = resourceName]
                ELSE [name |-> "", selector |-> options.selector,
                      fieldSelector |-> options.fieldSelector]
  /\ row' = IF command = "node" THEN <<"NODE">> ELSE <<"NAMESPACE", "POD NAME">>
  /\ stderr' = IF command = "pod" /\ order' = <<>> THEN stderr \cup {"no resources"}
               ELSE stderr
  /\ UNCHANGED <<inputs, parsed, stage, header, k, stdout, status>>

\* Every row gets the columns of one more type.
RowType ==
  /\ stage = "gather" /\ asked /\ order # <<>> /\ MoreTypes
  /\ LET t == resourceType[k + 1]
     IN  row' = row \o (IF command = "node" THEN NodeCells(t) ELSE PodCells(t))
  /\ k' = k + 1
  /\ UNCHANGED <<inputs, parsed, stage, request, gatherVars, header, printed>>

\* A row has all its columns; or a request fails; or the call returns.
Gathering ==
  /\ stage = "gather"
  /\ (\E x \in Item : ~MoreTypes /\ Call!Find(x)) \/ Call!Break \/ Call!Respond
  /\ UNCHANGED <<inputs, parsed, stage, request, columns, printed>>

\* errors.Is(err, context.DeadlineExceeded), for the nodes only
Message == IF command = "node" /\ answer.kind = "deadline" THEN "timed out" ELSE "error"

MutFailed == answer.kind = "api"
Failed == answer.kind \in {"api", "deadline"}

\* NodeWrite or PodWrite is called with the same types, if there are rows.
Returned ==
  /\ stage = "gather" /\ answer.kind # "none"
  /\ IF Failed THEN Fail(Message)
     ELSE /\ stage' = "heading"
          /\ header' = IF command = "node" THEN <<"NODE">> ELSE <<"NAMESPACE", "POD NAME">>
          /\ k' = 0
          /\ UNCHANGED <<inputs, parsed, request, gatherVars, row, printed>>

HeaderType ==
  /\ stage = "heading" /\ MoreTypes
  /\ LET t == resourceType[k + 1]
     IN  header' = header \o (IF command = "node" THEN NodeHeader(t) ELSE PodHeader(t))
  /\ k' = k + 1
  /\ UNCHANGED <<inputs, parsed, stage, request, gatherVars, row, printed>>

Render == stage = "heading" /\ ~MoreTypes /\ Show("table")

Next == Execute \/ Complete \/ Validate \/ ParseSelectors \/ Discover \/ TimerFires
          \/ Ask \/ RowType \/ Gathering \/ Returned \/ HeaderType \/ Render

Spec == Init /\ [][Next]_vars

-----------------------------------------------------------------------------
(* Every cell of a table stands under the heading of what it shows.        *)
HeaderFits == stdout = "table" /\ order # <<>> => header = row

(* So it is of every table but the default one of the nodes, whose heading *)
(* has one column less than its rows (kube.go:239, tablewriter.go:41).     *)
KnownHeaderFits == (command = "node" => resourceType # <<"">>) => HeaderFits

\* What a type named to --type is to show, and what is shown when none is.
ColumnsOf(t) ==
  IF command = "node"
  THEN CASE t = "cpu" -> Range(NodeCpu) [] t = "memory" -> Range(NodeMemory)
         [] t = "gpu" -> Range(NodeGpu) [] t = "pod" -> Range(NodePods)
  ELSE CASE t = "cpu" -> Range(PodCpu) [] t = "memory" -> Range(PodMemory)
         [] t = "gpu" -> Range(PodGpu)
KeyColumns == IF command = "node" THEN {"NODE"} ELSE {"NAMESPACE", "POD NAME"}
TypesAsked == IF options.type = <<>> THEN Offered ELSE Range(options.type) \cap Offered

(* A row shows what --type asked for and nothing else, over all the steps  *)
(* from the flag to the table: the columns of every type named, of all the *)
(* types when none is, and never those of another. A wrong or misspelt     *)
(* type, which the switches on a type treat as all of them (kube.go:229,   *)
(* 344), must not get as far (resource_node.go:131-138, resource_pod.go:   *)
(* 152-159).                                                               *)
TableAsAsked ==
  stdout = "table" /\ order # <<>> =>
    Range(row) = KeyColumns \cup UNION {ColumnsOf(t) : t \in TypesAsked}

(* No selector is lost between the flags and the request, but that of      *)
(* --field-selector when a NAME is given: a NAME is asked for without any  *)
(* selector, and only --selector is refused with one (kube.go:405-456,     *)
(* resource_node.go:126, resource_pod.go:147).                             *)
SelectorApplied ==
  asked =>
    /\ request.selector = options.selector
    /\ resourceName = "" => request.fieldSelector = options.fieldSelector

(* The exit tells what happened: the status is 0 exactly when something    *)
(* was printed that was asked for, and a table shows every name that was   *)
(* listed; nothing but messages is printed of a command that failed; it is *)
(* said to have timed out exactly when it did (if it shows nodes), and an  *)
(* empty table of pods, and no other, is announced (resource_node.go:      *)
(* 170-177, resource_pod.go:198-210).                                      *)
TruthfulExit ==
  stage = "exited" =>
    /\ status = 0 <=> stdout # ""
    /\ status = 1 => stderr \cap {"error", "timed out"} # {}
    /\ stdout = "table" => answer = Call!Rows(order) /\ found = ToSet(order)
    /\ "timed out" \in stderr => expired
    /\ command = "node" /\ answer.kind = "deadline" => "timed out" \in stderr
    /\ stdout = "table" /\ command = "pod" =>
         ("no resources" \in stderr <=> order = <<>>)
=============================================================================
