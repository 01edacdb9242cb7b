----------------------------- MODULE SearchPath -----------------------------
(***************************************************************************)
(* How src/src/search.c turns the pattern of FindFirstFileExW into an open *)
(* directory: normalize_pattern reduces it to directory names below the    *)
(* root, then open_search_directory opens them one by one, each relative   *)
(* to the one before, while other host processes rename directories and    *)
(* plant symbolic links.                                                   *)
(*                                                                         *)
(* A path is a sequence of components; a leading, doubled or trailing      *)
(* separator is an empty one.  Slash and backslash are one separator.      *)
(***************************************************************************)
EXTENDS Naturals, SequencesExt, Relation

CONSTANTS Names,        \* plain names of host entries
          Wildcards,    \* components with a star or a question mark
          Colons,       \* components with a colon
          Nuls,         \* components with a zero unit
          IllFormed,    \* components with an unpaired surrogate
          MaxPath,      \* bound on the components of a path
          HostDirectories,  \* directories the host may rename below the root
          Root,         \* the directory root_fd refers to
          Outside,      \* a directory that is not below it
          InitialAt,    \* where each directory is: <<parent, name>>
          InitialLinks, \* symbolic links: <<parent, name, target>>
          MaxMoves      \* bound on the steps of other host processes

Components == {"", ".", ".."} \cup Names \cup Wildcards \cup Colons
                              \cup Nuls \cup IllFormed
Inside == {Root} \cup HostDirectories
Nodes == Inside \cup {Outside}
NoNode == "none"        \* openat fails

ASSUME SearchPathAssumption ==
    /\ MaxPath \in Nat
    /\ MaxMoves \in Nat
    /\ Root \notin HostDirectories
    /\ Outside \notin Inside
    /\ NoNode \notin Inside
    /\ InitialAt \in [HostDirectories -> Inside \X Names]
    /\ InitialLinks \subseteq Inside \X Names \X Nodes

VARIABLES path,     \* the components given to the call
          walkStatus,   \* "start", "walking", then the result of the call
          todo,     \* the normalized components not opened yet
          current,  \* the last directory opened
          open,     \* the descriptors the call has open
          at, links, moves

host == <<at, links, moves>>
walkVars == <<path, walkStatus, todo, current, open, host>>

Failures == {"INVALID_ARGUMENT", "INVALID_PATH", "INVALID_ENCODING",
             "OUT_OF_MEMORY", "IO"}

WalkTypeOK ==
    /\ path \in Seq(Components) /\ Len(path) <= MaxPath
    /\ walkStatus \in {"start", "walking", "OK"} \cup Failures
    /\ todo \in Seq(Names) /\ Len(todo) <= MaxPath
    /\ current \in Nodes
    /\ open \subseteq Nodes
    /\ at \in [HostDirectories -> Inside \X Names]
    /\ links \subseteq Inside \X Names \X Nodes
    /\ moves \in 0 .. MaxMoves

WalkInit ==
    /\ path \in UNION {[1 .. n -> Components] : n \in 0 .. MaxPath}
    /\ Len(path) = 1 => path[1] # ""
    /\ walkStatus = "start"
    /\ todo = <<>>
    /\ current = Root
    /\ open = {}
    /\ at = InitialAt
    /\ links = InitialLinks
    /\ moves = 0

-----------------------------------------------------------------------------
(* normalize_pattern *)

HasAny(p, class) == \E i \in DOMAIN p : p[i] \in class

Refusal(result) == [status |-> result, directory |-> <<>>]

\* A parent component at the root is dropped.
KeepComponentMutant(so, component) ==
    IF so.status # "OK" \/ component \in {"", "."} THEN so
    ELSE IF component = ".."
         THEN IF so.directory = <<>> THEN so
              ELSE [so EXCEPT !.directory = Front(@)]
    ELSE IF component \in Wildcards THEN Refusal("INVALID_PATH")
    ELSE [so EXCEPT !.directory = Append(@, component)]

\* One turn of the loop over the directory components.
KeepComponent(so, component) ==
    IF so.status # "OK" \/ component \in {"", "."} THEN so
    ELSE IF component = ".."
         THEN IF so.directory = <<>> THEN Refusal("INVALID_PATH")
              ELSE [so EXCEPT !.directory = Front(@)]
    ELSE IF component \in Wildcards THEN Refusal("INVALID_PATH")
    ELSE [so EXCEPT !.directory = Append(@, component)]

\* What the loop has made of the first k components.
Normalized(p) ==
    LET after[k \in 0 .. Len(p) - 1] ==
          IF k = 0 THEN [status |-> "OK", directory |-> <<>>]
          ELSE KeepComponent(after[k - 1], p[k])
    IN  after

BadLeaf(p) == Last(p) \in {"", ".", ".."}

NormalizePattern(p) ==
    IF p = <<>> THEN Refusal("INVALID_ARGUMENT")
    ELSE IF HasAny(p, Nuls) THEN Refusal("INVALID_PATH")
    ELSE IF HasAny(p, IllFormed) THEN Refusal("INVALID_ENCODING")
    ELSE IF HasAny(p, Colons) \/ Head(p) = "" \/ BadLeaf(p)
         THEN Refusal("INVALID_PATH")
    ELSE Normalized(p)[Len(p) - 1]

-----------------------------------------------------------------------------
(* The host: openat with O_DIRECTORY and O_NOFOLLOW, and other processes.  *)

SubdirectoriesAt(node, name) == {d \in HostDirectories : at[d] = <<node, name>>}
LinksAt(node, name) == {link \in links : link[1] = node /\ link[2] = name}

FollowingOpenAt(node, name) ==
    LET found == SubdirectoriesAt(node, name)
                 \cup {link[3] : link \in LinksAt(node, name)}
    IN  IF found = {} THEN NoNode ELSE CHOOSE d \in found : TRUE

OpenAt(node, name) ==
    LET found == SubdirectoriesAt(node, name)
    IN  IF found = {} THEN NoNode ELSE CHOOSE d \in found : TRUE

IsFree(node, name) == SubdirectoriesAt(node, name) \cup LinksAt(node, name) = {}

\* Pairs of a node and a directory on its way up to the root.
IsUnder ==
    LET parent == [pair \in Nodes \X Nodes |->
                     pair[1] \in HostDirectories /\ pair[2] = at[pair[1]][1]]
    IN  TransitiveClosure(parent, Nodes)

\* Another process moves while the call is between two openat calls.
Rename(d, node, name) ==
    /\ walkStatus = "walking"
    /\ moves < MaxMoves
    /\ IsFree(node, name)
    /\ node # d
    /\ ~IsUnder[node, d]
    /\ at' = [at EXCEPT ![d] = <<node, name>>]
    /\ moves' = moves + 1
    /\ UNCHANGED <<path, walkStatus, todo, current, open, links>>

Symlink(node, name, target) ==
    /\ walkStatus = "walking"
    /\ moves < MaxMoves
    /\ IsFree(node, name)
    /\ links' = links \cup {<<node, name, target>>}
    /\ moves' = moves + 1
    /\ UNCHANGED <<path, walkStatus, todo, current, open, at>>

-----------------------------------------------------------------------------
(* open_search_directory *)

Fail(result) ==
    /\ walkStatus' = result
    /\ open' = {}
    /\ UNCHANGED <<path, todo, current, host>>

\* normalize_pattern, then a fresh description of the root itself.
Start ==
    /\ walkStatus = "start"
    /\ LET normal == NormalizePattern(path)
       IN  \/ /\ normal.status # "OK"
              /\ Fail(normal.status)
           \/ /\ normal.status = "OK"
              /\ walkStatus' = "walking"
              /\ todo' = normal.directory
              /\ current' = Root
              /\ open' = {Root}
              /\ UNCHANGED <<path, host>>
           \/ /\ normal.status = "OK"
              /\ Fail("IO")
           \/ /\ path # <<>> /\ ~HasAny(path, Nuls \cup IllFormed)
              /\ Fail("OUT_OF_MEMORY")

\* The next component, or ENOENT, ENOTDIR, ELOOP, EMFILE...
OpenComponent ==
    /\ walkStatus = "walking"
    /\ todo # <<>>
    /\ LET next == OpenAt(current, Head(todo))
       IN  \/ /\ next # NoNode
              /\ current' = next
              /\ open' = (open \ {current}) \cup {next}
              /\ todo' = Tail(todo)
              /\ UNCHANGED <<path, walkStatus, host>>
           \/ Fail("IO")

Finish ==
    /\ walkStatus = "walking"
    /\ todo = <<>>
    /\ walkStatus' = "OK"
    /\ UNCHANGED <<path, todo, current, open, host>>

WalkNext ==
    \/ Start
    \/ OpenComponent
    \/ Finish
    \/ \E d \in HostDirectories, node \in Inside, name \in Names : Rename(d, node, name)
    \/ \E node \in Inside, name \in Names, target \in Nodes : Symlink(node, name, target)

WalkSpec == WalkInit /\ [][WalkNext]_walkVars

-----------------------------------------------------------------------------

(* "Parent traversal is normalized without permitting an escape" (docs/    *)
(* ARCHITECTURE.md): whatever links and renames below the root happen      *)
(* between two openat calls, open_search_directory holds no directory      *)
(* that is not below the root.                                             *)
Confined == open \subseteq Inside

(* Where the host's own walk of the first k written components leads, ".." *)
(* going to the parent; leaving the root is final and a link is not        *)
(* followed.                                                               *)
HostStep(node, component) ==
    IF node \in {NoNode, Outside} \/ component \in {"", "."} THEN node
    ELSE IF component = ".."
         THEN IF node = Root THEN Outside ELSE at[node][1]
         ELSE OpenAt(node, component)
Written ==
    LET walk[k \in 0 .. Len(path) - 1] ==
          IF k = 0 THEN Root ELSE HostStep(walk[k - 1], path[k])
    IN  walk
WrittenDirectory == Written[Len(path) - 1]

(* The lexical treatment of "." and ".." in normalize_pattern agrees with  *)
(* the host: a call that succeeds has the directory that was written       *)
(* (unless the host finds none, as in ghost/..), and a well-formed path    *)
(* into the root is never refused as malformed.                            *)
OpensWhatWasWritten ==
    /\ walkStatus = "OK" /\ moves = 0 => WrittenDirectory \in {current, NoNode}
    /\ walkStatus = "INVALID_PATH" =>
        \/ HasAny(path, Nuls \cup Colons)
        \/ HasAny(Front(path), Wildcards)
        \/ Head(path) = ""
        \/ BadLeaf(path)
        \/ WrittenDirectory \in {Outside, NoNode}

(* Every openat of the walk is paid back by a close: a failed call of      *)
(* open_search_directory leaves no descriptor, a successful one exactly    *)
(* the one it returns.                                                     *)
DescriptorsAreClosed ==
    /\ walkStatus = "OK" => open = {current}
    /\ walkStatus \in Failures => open = {}

(* Whatever fails on the way, the walk is left clean: no descriptor stays  *)
(* open, and no empty, dotted or wildcard component reaches openat.        *)
WalkIsClean == WalkTypeOK /\ DescriptorsAreClosed

(* open_search_directory, whatever happens around it, holds only           *)
(* directories below the root and gives back what it does not return.      *)
WalkIsConfined == Confined /\ WalkIsClean
=============================================================================
