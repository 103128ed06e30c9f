--------------------------------- MODULE Settings ---------------------------------
(***************************************************************************)
(* The settings the controller reads before it reboots or replaces a node: *)
(* createGoVCloudClient and the head of replaceNode (Controller.go), with  *)
(* the readers of vcd/FetchUserInformation.go, vcd/FetchVcdInformation.go, *)
(* vcd/FindAutoScalerSize.go and src/utils.go.  Every value is a request   *)
(* of its own, and objects change between two of them.                     *)
(*                                                                         *)
(* A value names the site (cluster and tenant) it belongs to: Empty where  *)
(* a key is missing or its text cannot be parsed, in which case the code   *)
(* goes on.  A missing object ends the process.  AnyListed is a mutant of  *)
(* the definition after it.                                                *)
(***************************************************************************)
EXTENDS Integers, Sequences, FiniteSets

CONSTANTS
    Sites,     \* whose settings the objects hold, one after another
    Sizes,     \* limits of the auto scaler and numbers of nodes
    MaxEdits,  \* bound: changes of objects during the run
    Gone,      \* the object does not exist
    Empty      \* its key does not, or cannot be parsed

Unparsed == 0     \* what Atoi gives with the error that is dropped
Bounds == Sizes \union {Unparsed}
Limits == [url : Sites, min : Bounds, max : Bounds]

SettingsConstants ==
    /\ IsFiniteSet(Sizes) /\ Sizes \subseteq Nat \ {0}
    /\ Gone \notin Sites \union Limits \union {Empty} /\ Empty \notin Sites
    /\ MaxEdits \in Nat

VARIABLES
    secret,   \* the site of fke-secret and of the secret with the login
    csi,      \* the site of fptcloud-csi-configmap
    limits,   \* autoscaling-configmap: [url, min, max]
    nodes,    \* nodes in the lister
    call,     \* what the controller reads for
    values,   \* what it has read so far
    outcome,  \* what it decided
    edits

vars == <<secret, csi, limits, nodes, call, values, outcome, edits>>
objects == <<secret, csi, limits>>

Outcomes == {"none", "exit", "login", "create first", "remove first", "nothing"}

TypeOK ==
    /\ secret \in Sites \union {Empty, Gone} /\ csi \in Sites \union {Empty, Gone}
    /\ limits = Gone \/ limits \in Limits
    /\ nodes \in Sizes
    /\ call \in {"none", "reboot", "replace"}
    /\ Len(values) <= 7
    \* A call goes on only with objects that existed.
    /\ call # "none" => \A i \in DOMAIN values : values[i] # Gone
    /\ outcome \in Outcomes
    /\ edits \in 0 .. MaxEdits

Init ==
    /\ secret \in Sites /\ csi = secret
    /\ limits \in {l \in Limits : l.url = secret /\ l.min \in Sizes /\ l.min <= l.max}
    /\ nodes \in Sizes
    /\ call = "none" /\ values = <<>> /\ outcome = "none"
    /\ edits = 0

-----------------------------------------------------------------------------
(* The readers: what each takes from its object. *)

GetUserName == secret
GetPassword == secret
GetHost == csi
GetORG == csi
GetVDC == csi
GetAccessToken == secret
GetVPCId == secret
GetCallBackURL == IF limits = Gone THEN Gone ELSE limits.url
GetClusterID == secret
GetMaxSize == IF limits = Gone THEN Gone ELSE limits.max
GetMinSize == IF limits = Gone THEN Gone ELSE limits.min

\* createGoVCloudClient
RebootReaders == <<GetUserName, GetPassword, GetHost, GetORG, GetVDC>>

\* The clusters the portal lists for a token, a VPC and a URL; a list has 25.
Listed(token, vpc, url) ==
    {s \in Sites : token = s /\ vpc = s /\ url = s}
AnyListed(token, vpc, url, cluster) ==
    IF Listed(token, vpc, url) = {} THEN Empty
    ELSE CHOOSE s \in Listed(token, vpc, url) : TRUE
GetIDCluster(token, vpc, url, cluster) ==
    IF cluster \in Listed(token, vpc, url) THEN cluster ELSE Empty

\* The head of replaceNode.  The list of clusters may be too long for the page,
\* or an error; without an answer the process panics.
ReplaceReaders ==
    <<{GetAccessToken}, {GetVPCId}, {GetCallBackURL}, {GetClusterID},
      IF Len(values) < 4 THEN {}
      ELSE {GetIDCluster(values[1], values[2], values[3], values[4]), Empty,
            Gone},
      {GetMaxSize}, {GetMinSize}>>

Start(what) ==
    /\ call = "none"
    /\ call' = what
    /\ values' = <<>> /\ outcome' = "none"
    /\ UNCHANGED <<objects, nodes, edits>>

\* klog.Fatalf when the object is missing.
Got(v) ==
    /\ values' = Append(values, v)
    /\ IF v = Gone THEN call' = "none" /\ outcome' = "exit"
                   ELSE UNCHANGED <<call, outcome>>
    /\ UNCHANGED <<objects, nodes, edits>>

Read ==
    \/ call = "reboot" /\ Len(values) < 5 /\ Got(RebootReaders[Len(values) + 1])
    \/ /\ call = "replace" /\ Len(values) < 7
       /\ \E v \in ReplaceReaders[Len(values) + 1] : Got(v)

\* A login needs a user, a password, an organisation and a host that belong
\* together; the VM is looked for in the VDC.
LogIn ==
    /\ call = "reboot" /\ Len(values) = 5
    /\ outcome' = IF \E s \in Sites : \A i \in 1 .. 4 : values[i] = s
                  THEN "login" ELSE "nothing"
    /\ call' = "none"
    /\ UNCHANGED <<objects, nodes, values, edits>>

\* The limits decide what comes first, by the nodes in the lister now.
Decide ==
    /\ call = "replace" /\ Len(values) = 7
    /\ outcome' = IF nodes >= values[7] /\ nodes < values[6]
                  THEN "create first"
                  ELSE IF nodes >= values[6] THEN "remove first" ELSE "nothing"
    /\ call' = "none"
    /\ UNCHANGED <<objects, nodes, values, edits>>

-----------------------------------------------------------------------------
(* Operators change or delete the objects, the auto scaler the nodes. *)

Edit ==
    /\ edits < MaxEdits /\ edits' = edits + 1
    /\ \/ secret' \in Sites \union {Empty, Gone} /\ UNCHANGED <<csi, limits>>
       \/ csi' \in Sites \union {Empty, Gone} /\ UNCHANGED <<secret, limits>>
       \/ /\ limits' \in {l \in Limits : l.max = Unparsed \/ l.min <= l.max}
                         \union {Gone}
          /\ UNCHANGED <<secret, csi>>
    /\ UNCHANGED <<nodes, call, values, outcome>>

Scale ==
    /\ nodes' \in Sizes
    /\ UNCHANGED <<objects, call, values, outcome, edits>>

Next ==
    \/ Start("reboot") \/ Start("replace")
    \/ Read \/ LogIn \/ Decide
    \/ Edit \/ Scale

Spec == Init /\ [][Next]_vars

-----------------------------------------------------------------------------
(* Properties. *)

Replacing == outcome \in {"create first", "remove first"}

\* A request that names a cluster by its id goes out with the token, the VPC,
\* the URL and the cluster id of that cluster, though each was read by itself
\* and the objects changed in between: a mixture has no id, and no login.
RequestNamesOneSite ==
    /\ (Replacing /\ values[5] # Empty) =>
           /\ values[4] = values[5]
           /\ \A i \in 1 .. 3 : values[i] = values[5]
    /\ outcome = "login" => \A i, j \in 1 .. 4 : values[i] = values[j]
=============================================================================
