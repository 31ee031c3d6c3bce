---------------------------- MODULE MCConfigPush ----------------------------
\* Small instances of ConfigPush.
EXTENDS ConfigPush, TLC

CONSTANT First      \* one of the nodes

\* An inbound goes to every node or to First only.
SomeTargets == {{}, {First}}

\* Requests and tags are interchangeable.
RequestSymmetry == Permutations(Request) \cup Permutations(Tag)

\* The tags in use, stored or about to be stored.
TagsInUse == {c.tag : c \in ({row[i] : i \in Inbound} \cup {held[r] : r \in Request}) \ {None}}

\* No node has been connected yet.
NoNodeYet == online = {} /\ \A n \in Node : stream[n] = "none" /\ got[n] = {}

\* Bound: a second inbound and a second tag exist only while no node has been
\* connected.  Tags do not matter to the push, and enabling or directing one inbound
\* already makes every config differ from the next.
FewInbounds == \/ NoNodeYet
               \/ /\ \E i \in Inbound : \A j \in Inbound \ {i} : state[j] = "absent"
                  /\ \A t, u \in TagsInUse : t = u

=============================================================================
