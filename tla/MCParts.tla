------------------------------ MODULE MCParts ------------------------------
(***************************************************************************)
(* The parts that share no state with one another, for TLC: each behaviour *)
(* is one of one part, the others standing at an initial state of theirs.  *)
(***************************************************************************)
EXTENDS ClientSync, LineMerge, ForceSync, Watcher, Tokens, Blobs, IndexFile, Limits

CONSTANT Parts

VARIABLE part

partsVars == <<part, syncVars, mergeVars, forceVars, watchVars, tokenVars, blobVars, indexVars,
               limitVars>>

\* A plugin that follows a vault, then one that starts on it, and three texts to merge.
Op(f, kind) == [file |-> f, kind |-> kind, own |-> FALSE]
OwnOp(f) == [file |-> f, kind |-> "inline", own |-> TRUE]

SmallPlans ==
    {[log |-> <<Op(1, "inline"), OwnOp(1), Op(1, "delete")>>, new |-> FALSE],
     [log |-> <<Op(1, "inline"), OwnOp(1), OwnOp(1)>>, new |-> FALSE],
     [log |-> <<Op(1, "blob")>>, new |-> FALSE],
     [log |-> <<Op(2, "inline"), Op(2, "rename")>>, new |-> FALSE],
     [log |-> <<Op(1, "blob")>>, new |-> TRUE],
     [log |-> <<Op(2, "inline"), OwnOp(2)>>, new |-> TRUE]}

\* An operation of another device, then one of the plugin's own.
OneAhead == {[log |-> <<Op(1, "inline"), Op(2, "inline"), OwnOp(1)>>, new |-> FALSE]}

\* Two uploads in one vault, one in another.
TwoVaults == 1 :> 1 @@ 2 :> 1 @@ 3 :> 2

\* Where the parts with many initial states stand while another moves.
Standing ==
    /\ part # "sync" => plan = CHOOSE p \in Plans : TRUE
    /\ part # "merge" => sides = [base |-> <<1>>, ours |-> <<1>>, theirs |-> <<1>>]
    /\ part # "force" => /\ mine = [p \in ForcePath |-> Absent]
                         /\ entries = [f \in ForceFile |-> Absent]
                         /\ theirs = [f \in ForceFile |-> NoRow]
    /\ part # "watch" => edits = 0

PartsInit ==
    /\ part \in Parts
    /\ Standing
    /\ SyncInit /\ TokensInit /\ BlobsInit /\ IndexInit /\ LimitsInit
    /\ WatchInit /\ ForceInit /\ MergeInit

Only(p) ==
    /\ part = p
    /\ UNCHANGED part
    /\ p # "sync" => UNCHANGED syncVars
    /\ p # "merge" => UNCHANGED mergeVars
    /\ p # "force" => UNCHANGED forceVars
    /\ p # "watch" => UNCHANGED watchVars
    /\ p # "tokens" => UNCHANGED tokenVars
    /\ p # "blobs" => UNCHANGED blobVars
    /\ p # "index" => UNCHANGED indexVars
    /\ p \notin {"messages", "logins"} => UNCHANGED limitVars

PartsNext ==
    \/ Only("sync") /\ SyncNext
    \/ Only("merge") /\ Merge
    \/ Only("force") /\ ForceNext
    \/ Only("watch") /\ WatchNext
    \/ Only("tokens") /\ TokensNext
    \/ Only("blobs") /\ BlobsNext
    \/ Only("index") /\ IndexNext
    \/ Only("messages") /\ MessagesNext
    \/ Only("logins") /\ LoginsNext

PartsProgress ==
    \/ Only("sync") /\ SyncProgress
    \/ Only("watch") /\ WatchProgress
    \/ Only("tokens") /\ SessionProgress
    \/ Only("blobs") /\ UploadProgress

\* The fairness that each part's own specification has.
PartsSpec == PartsInit /\ [][PartsNext]_partsVars /\ WF_partsVars(PartsProgress)
=============================================================================
