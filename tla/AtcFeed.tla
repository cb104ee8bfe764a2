------------------------------- MODULE AtcFeed -------------------------------
(***************************************************************************)
(* The ADS-B feed's two TCP servers (Beast and SBS).  One thread, run,     *)
(* sends every frame to every client of a port, one after the other, with  *)
(* a blocking sendall under the port's lock; per port another thread       *)
(* accepts clients and appends them to the list under the same lock.       *)
(*                                                                         *)
(* What a frame says is left out, as is the schedule: any number of        *)
(* flights may be in the air at a tick.  A client's socket holds Room      *)
(* frames; a client may read, stop reading for ever, or go away.           *)
(***************************************************************************)
EXTENDS Naturals, Sequences, SequencesExt

CONSTANTS
  Clients,
  PortOf,       \* the port client c connects to
  Room,         \* frames a client's socket holds unread
  IdentEvery,   \* an identification every so many ticks
  Failing,      \* bound: the ports on which accept may raise
  MaxConnects   \* bound: connections a client makes

Ports == {"beast", "sbs"}

ASSUME ClientAssumption ==
  /\ PortOf \in [Clients -> Ports]
  /\ Failing \subseteq Ports
  /\ {Room, IdentEvery, MaxConnects} \subseteq Nat \ {0}

VARIABLES
  socks,     \* _socks of a port
  lock,      \* who holds _lock of a port
  backlog,   \* client the accept thread of a port has accepted
  accepting, \* ports whose accept thread is there
  frames,    \* the ports still to be sent to for the flight at hand, in order
  tick,      \* tick % IdentEvery
  pc,        \* where run is in send
  next,      \* the iterator over _socks
  dead,      \* send's list of sockets that raised
  conn,      \* a client's connection
  unread,    \* frames in a client's socket
  connects,  \* connections made so far
  served     \* (history) clients sendall returned or raised for in this send

server == <<socks, lock, backlog, accepting>>
run    == <<frames, tick, pc, next, dead, served>>
client == <<conn, unread, connects>>
vars   == <<server, run, client>>

TypeOK ==
  /\ socks \in [Ports -> Seq(Clients)]
  /\ lock \in [Ports -> {"free", "run", "accept"}]
  /\ backlog \in [Ports -> SUBSET Clients]
  /\ accepting \subseteq Ports
  /\ frames \in Seq(Ports)
  /\ tick \in 0 .. IdentEvery - 1
  /\ pc \in {"flights", "lock", "send", "drop"}
  /\ next \in Nat
  /\ dead \in Seq(Clients)
  /\ conn \in [Clients -> {"away", "waiting", "open", "gone"}]
  /\ unread \in [Clients -> 0 .. Room]
  /\ connects \in [Clients -> 0 .. MaxConnects]
  /\ served \subseteq Clients

Init ==
  /\ socks = [p \in Ports |-> << >>]
  /\ lock = [p \in Ports |-> "free"]
  /\ backlog = [p \in Ports |-> {}]
  /\ accepting = Ports
  /\ frames = << >>
  /\ tick = 0
  /\ pc = "flights"
  /\ next = 1
  /\ dead = << >>
  /\ conn = [c \in Clients |-> "away"]
  /\ unread = [c \in Clients |-> 0]
  /\ connects = [c \in Clients |-> 0]
  /\ served = {}

-------------------------------------------------------------------------------
(***************************************************************************)
(* The frames of one flight: an identification now and then, positions     *)
(* even and odd and the velocity as Beast, position and velocity as SBS.   *)
(***************************************************************************)
FlightFrames ==
  (IF tick = 0 THEN <<"beast", "sbs">> ELSE << >>)
    \o <<"beast", "beast", "beast", "sbs", "sbs">>

Flight ==
  /\ pc = "flights" /\ frames = << >>
  /\ frames' = FlightFrames
  /\ pc' = "lock"
  /\ UNCHANGED <<server, tick, next, dead, served, client>>

(***************************************************************************)
(* No more flights in the air: run sleeps until the next tick.             *)
(***************************************************************************)
NextTick ==
  /\ pc = "flights" /\ frames = << >>
  /\ tick' = (tick + 1) % IdentEvery
  /\ UNCHANGED <<server, frames, pc, next, dead, served, client>>

(***************************************************************************)
(* send: under the lock ...                                                *)
(***************************************************************************)
Lock ==
  /\ pc = "lock"
  /\ lock[Head(frames)] = "free"
  /\ lock' = [lock EXCEPT ![Head(frames)] = "run"]
  /\ pc' = "send"
  /\ next' = 1
  /\ served' = {}
  /\ UNCHANGED <<socks, backlog, accepting, frames, tick, dead, client>>

List == socks[Head(frames)]

(***************************************************************************)
(* ... each socket is sent to in turn: its buffer takes the frame, blocks  *)
(* while it is full, or the socket raises.  That a client is gone shows    *)
(* when what was sent in vain has filled the buffer, or earlier.           *)
(* (NeverBlocks: an unbounded buffer.)                                     *)
(***************************************************************************)
NeverBlocks(c) == TRUE

HasRoom(c) == unread[c] < Room

SendTo ==
  /\ pc = "send" /\ next <= Len(List)
  /\ LET c == List[next] IN
     /\ HasRoom(c)
     /\ unread' = [unread EXCEPT ![c] = @ + 1]
     /\ served' = served \cup {c}
  /\ next' = next + 1
  /\ UNCHANGED <<server, frames, tick, pc, dead, conn, connects>>

(***************************************************************************)
(* A socket that raises is noted, and removed when the loop is over.       *)
(* (RemoveNow: removed from the list the loop runs over as well; Ignore:   *)
(* not noted.)                                                             *)
(***************************************************************************)
RemoveNow(c) ==
  /\ socks' = [socks EXCEPT ![PortOf[c]] = RemoveFirst(@, c)]
  /\ dead' = Append(dead, c)

Ignore(c) == UNCHANGED <<socks, dead>>

Note(c) ==
  /\ dead' = Append(dead, c)
  /\ UNCHANGED socks

SendRaises ==
  /\ pc = "send" /\ next <= Len(List)
  /\ LET c == List[next] IN
     /\ conn[c] = "gone"
     /\ Note(c)
     /\ served' = served \cup {c}
  /\ next' = next + 1
  /\ UNCHANGED <<lock, backlog, accepting, frames, tick, pc, client>>

SendDone ==
  /\ pc = "send" /\ next > Len(List)
  /\ pc' = "drop"
  /\ UNCHANGED <<server, frames, tick, next, dead, served, client>>

(***************************************************************************)
(* Dead sockets are removed from the list, each at its first occurrence,   *)
(* and closed ...                                                          *)
(***************************************************************************)
FirstIndex(seq, c) ==
  {i \in 1 .. Len(seq) : seq[i] = c /\ \A j \in 1 .. i - 1 : seq[j] # c}

DropDead ==
  /\ pc = "drop" /\ dead # << >>
  /\ LET c == Head(dead) IN
     /\ \E i \in FirstIndex(List, c) : socks' = [socks EXCEPT ![Head(frames)] = RemoveAt(@, i)]
     /\ conn' = [conn EXCEPT ![c] = "away"]
     /\ unread' = [unread EXCEPT ![c] = 0]
  /\ dead' = Tail(dead)
  /\ UNCHANGED <<lock, backlog, accepting, frames, tick, pc, next, served, connects>>

(***************************************************************************)
(* ... and the lock is released; then comes the next frame, or the next    *)
(* flight.  (LockKept: released only if somebody is left to send to.)      *)
(***************************************************************************)
LockKept(p) == lock' = [lock EXCEPT ![p] = IF socks[p] = << >> THEN @ ELSE "free"]

Unlock(p) == lock' = [lock EXCEPT ![p] = "free"]

SendReturns ==
  /\ pc = "drop" /\ dead = << >>
  /\ Unlock(Head(frames))
  /\ frames' = Tail(frames)
  /\ pc' = IF Len(frames) = 1 THEN "flights" ELSE "lock"
  /\ UNCHANGED <<socks, backlog, accepting, tick, next, dead, served, client>>

-------------------------------------------------------------------------------
(***************************************************************************)
(* The accept thread of port p: accept, then append under the lock.        *)
(***************************************************************************)
Accept(c) ==
  /\ PortOf[c] \in accepting
  /\ conn[c] = "waiting"
  /\ backlog[PortOf[c]] = {}
  /\ backlog' = [backlog EXCEPT ![PortOf[c]] = {c}]
  /\ conn' = [conn EXCEPT ![c] = "open"]
  /\ UNCHANGED <<socks, lock, accepting, run, unread, connects>>

AcceptLock(p) ==
  /\ backlog[p] # {}
  /\ lock[p] = "free"
  /\ lock' = [lock EXCEPT ![p] = "accept"]
  /\ UNCHANGED <<socks, backlog, accepting, run, client>>

AcceptAppend(p) ==
  /\ lock[p] = "accept"
  /\ \E c \in backlog[p] : socks' = [socks EXCEPT ![p] = Append(@, c)]
  /\ backlog' = [backlog EXCEPT ![p] = {}]
  /\ lock' = [lock EXCEPT ![p] = "free"]
  /\ UNCHANGED <<accepting, run, client>>

(***************************************************************************)
(* accept raises OSError (no file descriptor is left, a connection was     *)
(* aborted), and the thread ends: nobody is accepted on p any more, while  *)
(* those on the list are sent to as before.                                *)
(***************************************************************************)
AcceptFails(p) ==
  /\ p \in Failing \cap accepting
  /\ backlog[p] = {}
  /\ accepting' = accepting \ {p}
  /\ UNCHANGED <<socks, lock, backlog, run, client>>

(***************************************************************************)
(* Clients.                                                                *)
(***************************************************************************)
Connect(c) ==
  /\ conn[c] = "away" /\ connects[c] < MaxConnects
  /\ conn' = [conn EXCEPT ![c] = "waiting"]
  /\ connects' = [connects EXCEPT ![c] = @ + 1]
  /\ UNCHANGED <<server, run, unread>>

Read(c) ==
  /\ conn[c] = "open" /\ unread[c] > 0
  /\ unread' = [unread EXCEPT ![c] = 0]
  /\ UNCHANGED <<server, run, conn, connects>>

GoAway(c) ==
  /\ conn[c] = "open"
  /\ conn' = [conn EXCEPT ![c] = "gone"]
  /\ UNCHANGED <<server, run, unread, connects>>

-------------------------------------------------------------------------------
Run == Flight \/ NextTick \/ Lock \/ SendTo \/ SendRaises \/ SendDone \/ DropDead \/ SendReturns

AcceptStep(p) ==
  \/ \E c \in Clients : PortOf[c] = p /\ Accept(c)
  \/ AcceptLock(p) \/ AcceptAppend(p)

Next ==
  \/ Run
  \/ \E p \in Ports : AcceptStep(p) \/ AcceptFails(p)
  \/ \E c \in Clients : Connect(c) \/ Read(c) \/ GoAway(c)

Spec == Init /\ [][Next]_vars

(***************************************************************************)
(* The threads run; there are flights in the air again and again.  A       *)
(* thread waiting for a lock gets it if it is free again and again.        *)
(* Nothing is assumed of clients, nor that accept ever raises or does not. *)
(***************************************************************************)
FairSpec ==
  /\ Spec
  /\ WF_vars(Run) /\ SF_vars(Flight) /\ SF_vars(Lock)
  /\ \A p \in Ports : SF_vars(AcceptStep(p))

-------------------------------------------------------------------------------
(***************************************************************************)
(* When a send is over every client on the port's list has been served,    *)
(* although sockets raise and are removed: nobody on the list misses a     *)
(* frame.                                                                  *)
(***************************************************************************)
NobodyIsSkipped == pc = "drop" => Range(List) \subseteq served

(***************************************************************************)
(* Every socket noted is still on the list when its turn comes to be       *)
(* removed: list.remove would raise, which nothing catches, and end the    *)
(* feed.  (atc_feed.py:166-167)                                            *)
(***************************************************************************)
DeadAreListed == pc = "drop" => Range(dead) \subseteq Range(List)

(***************************************************************************)
(* As long as no client keeps its socket full for ever, a client that went *)
(* away is dropped at last, and one that connected gets on its port's      *)
(* list, unless the thread that accepts on the port is gone.               *)
(***************************************************************************)
NobodyStalls == \A c \in Clients : []<>(unread[c] < Room \/ conn[c] = "gone")

ListFollowsClients ==
  NobodyStalls => \A c \in Clients :
    /\ conn[c] = "gone" ~> conn[c] # "gone"
    /\ conn[c] = "waiting" ~>
         c \in Range(socks[PortOf[c]]) \/ PortOf[c] \notin accepting

(***************************************************************************)
(* ... and the feed goes on to its next flight, over and over, with or     *)
(* without the threads that accept.                                        *)
(***************************************************************************)
FeedGoesOn == NobodyStalls => []<>(pc = "flights")
===============================================================================
