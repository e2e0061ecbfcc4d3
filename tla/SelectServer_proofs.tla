------------------------ MODULE SelectServer_proofs ------------------------
(***************************************************************************)
(* SelectServer proved for every number of clients and handle values and    *)
(* every configured size: what select waits for, what the loop over its     *)
(* result may touch, the size of the set, and that the server implements    *)
(* ConnectionService.                                                       *)
(***************************************************************************)
EXTENDS SelectServer, FiniteSetTheorems, FunctionTheorems, SequenceTheorems, TLAPS

-----------------------------------------------------------------------------
(* Sequences.                                                               *)

Places(seq, S) == {k \in 1..Len(seq) : seq[k] \in S}
Rank(k, K) == Cardinality({m \in K : m <= k})

\* The places in a sequence are finitely many.
LEMMA PlacesFinite ==
    ASSUME NEW A, NEW seq \in Seq(A), NEW S
    PROVE  /\ IsFiniteSet(Places(seq, S))
           /\ Cardinality(Places(seq, S)) \in Nat
           /\ Cardinality(Places(seq, S)) <= Len(seq)
           /\ Places(seq, S) \in SUBSET (1..Len(seq))
<1>1. Len(seq) \in Nat
  OBVIOUS
<1>2. IsFiniteSet(1..Len(seq)) /\ Cardinality(1..Len(seq)) = Len(seq)
  BY <1>1, FS_Interval
<1>3. Places(seq, S) \in SUBSET (1..Len(seq))
  BY DEF Places
<1>. QED  BY <1>2, <1>3, FS_Subset, FS_CardinalityType

\* Ranks number the elements of a finite set of positions from one.
LEMMA RankBijective ==
    ASSUME NEW len \in Nat, NEW K \in SUBSET (1..len)
    PROVE  /\ \A k \in K : Rank(k, K) \in 1..Cardinality(K)
           /\ \A k, m \in K : Rank(k, K) = Rank(m, K) => k = m
           /\ \A n \in 1..Cardinality(K) : \E k \in K : Rank(k, K) = n
<1>1. IsFiniteSet(K) /\ Cardinality(K) \in Nat
  <2>1. IsFiniteSet(1..len)
    BY FS_Interval
  <2>. QED  BY <2>1, FS_Subset, FS_CardinalityType
<1>. DEFINE Below(k) == {m \in K : m <= k}
<1>2. ASSUME NEW k \in K
      PROVE  /\ IsFiniteSet(Below(k))
             /\ Cardinality(Below(k)) \in 1..Cardinality(K)
  <2>1. Below(k) \in SUBSET K /\ k \in Below(k)
    OBVIOUS
  <2>2. /\ IsFiniteSet(Below(k))
        /\ Cardinality(Below(k)) <= Cardinality(K)
        /\ Cardinality(Below(k)) \in Nat
    BY <1>1, <2>1, FS_Subset, FS_CardinalityType
  <2>3. Cardinality(Below(k)) # 0
    BY <2>1, <2>2, FS_EmptySet
  <2>. HIDE DEF Below
  <2>. QED  BY <1>1, <2>2, <2>3
<1>3. ASSUME NEW k \in K, NEW m \in K, k < m
      PROVE  Cardinality(Below(k)) # Cardinality(Below(m))
  <2>1. Below(k) \in SUBSET Below(m) /\ m \in Below(m) /\ m \notin Below(k)
    <3>1. \A x \in K : x \in Int
      OBVIOUS
    <3>2. \A x \in K : x <= k => x <= m
      BY <1>3, <3>1
    <3>3. m <= m /\ ~(m <= k)
      BY <1>3, <3>1
    <3>. QED  BY <3>2, <3>3
  <2>. HIDE DEF Below
  <2>. QED  BY <1>2, <2>1, FS_Subset
<1>4. \A k, m \in K : Rank(k, K) = Rank(m, K) => k = m
  <2>1. \A k, m \in K : k < m \/ m < k \/ k = m
    OBVIOUS
  <2>2. \A k \in K : Rank(k, K) = Cardinality(Below(k))
    BY DEF Rank
  <2>. HIDE DEF Below
  <2>. QED  BY <1>3, <2>1, <2>2
<1>5. \A k \in K : Rank(k, K) \in 1..Cardinality(K)
  BY <1>2 DEF Rank
<1>. DEFINE r == [k \in K |-> Rank(k, K)]
<1>6. r \in Injection(K, 1..Cardinality(K))
  BY <1>4, <1>5 DEF Injection, IsInjective
<1>7. /\ IsFiniteSet(1..Cardinality(K))
      /\ Cardinality(1..Cardinality(K)) = Cardinality(K)
  BY <1>1, FS_Interval
<1>8. r \in Surjection(K, 1..Cardinality(K))
  BY <1>6, <1>7, FS_Injection
<1>9. \A n \in 1..Cardinality(K) : \E k \in K : Rank(k, K) = n
  BY <1>8 DEF Surjection
<1>. QED  BY <1>4, <1>5, <1>9

\* Where the n-th entry of Selected(seq, S) comes from.
Place(seq, S, n) == CHOOSE k \in Places(seq, S) : Rank(k, Places(seq, S)) = n

\* Selected keeps the entries that are in S, each place once.
LEMMA SelectedEntries ==
    ASSUME NEW A, NEW seq \in Seq(A), NEW S
    PROVE  /\ Selected(seq, S) \in Seq(A)
           /\ Len(Selected(seq, S)) = Cardinality(Places(seq, S))
           /\ Len(Selected(seq, S)) <= Len(seq)
           /\ \A n \in 1..Len(Selected(seq, S)) :
                /\ Place(seq, S, n) \in Places(seq, S)
                /\ Selected(seq, S)[n] = seq[Place(seq, S, n)]
           /\ \A m, n \in 1..Len(Selected(seq, S)) :
                Place(seq, S, m) = Place(seq, S, n) => m = n
           /\ Elements(Selected(seq, S)) = Elements(seq) \cap S
<1>. DEFINE K == Places(seq, S)
            N == Cardinality(K)
            p(n) == Place(seq, S, n)
<1>1. /\ N \in Nat /\ N <= Len(seq) /\ K \in SUBSET (1..Len(seq))
      /\ Len(seq) \in Nat
  BY PlacesFinite
<1>2. /\ \A k \in K : Rank(k, K) \in 1..N
      /\ \A k, m \in K : Rank(k, K) = Rank(m, K) => k = m
      /\ \A n \in 1..N : \E k \in K : Rank(k, K) = n
  BY <1>1, RankBijective
<1>3. \A n \in 1..N : p(n) \in K /\ Rank(p(n), K) = n
  BY <1>2 DEF Place
<1>4. Selected(seq, S) = [n \in 1..N |-> seq[p(n)]]
  BY DEF Selected, Place, Places, Rank
<1>5. \A k \in K : seq[k] \in A /\ seq[k] \in S
  BY DEF Places
<1>. HIDE DEF K, N, p
<1>6. Selected(seq, S) \in Seq(A) /\ Len(Selected(seq, S)) = N
  <2>1. Selected(seq, S) \in [1..N -> A]
    BY <1>3, <1>4, <1>5
  <2>. QED  BY <1>1, <2>1
<1>7. \A n \in 1..N : Selected(seq, S)[n] = seq[p(n)]
  BY <1>4
<1>8. \A m, n \in 1..N : p(m) = p(n) => m = n
  BY <1>3
<1>9. Elements(Selected(seq, S)) = Elements(seq) \cap S
  <2>1. ASSUME NEW x \in Elements(Selected(seq, S))
        PROVE  x \in Elements(seq) \cap S
    <3>1. PICK n \in 1..N : x = seq[p(n)]
      BY <1>6, <1>7 DEF Elements
    <3>. QED  BY <1>1, <1>3, <1>5, <3>1 DEF Elements
  <2>2. ASSUME NEW x \in Elements(seq) \cap S
        PROVE  x \in Elements(Selected(seq, S))
    <3>1. PICK k \in 1..Len(seq) : x = seq[k]
      BY DEF Elements
    <3>2. k \in K
      BY <3>1 DEF K, Places
    <3>3. Rank(k, K) \in 1..N /\ p(Rank(k, K)) = k
      BY <1>2, <1>3, <3>2
    <3>. QED  BY <1>6, <1>7, <3>1, <3>3 DEF Elements
  <2>. QED  BY <2>1, <2>2
<1>. QED  BY <1>1, <1>3, <1>6, <1>7, <1>8, <1>9 DEF K, N, p

-----------------------------------------------------------------------------
(* The inductive invariant.                                                 *)

SocketValues == Handles \cup {Listen, Invalid}

\* No socket is listed twice; failed accepts may be.
Distinct(seq) ==
    \A i, j \in 1..Len(seq) : seq[i] = seq[j] => i = j \/ seq[i] = Invalid

ClientSockets == {handle[c] : c \in Accepted}

\* Connections do not share a handle, neither with each other nor with the
\* wake-up socket, and a client that was dropped has none.
HandlesInv ==
    /\ \A c, d \in Accepted : handle[c] = handle[d] => c = d
    /\ udp_sock \notin ClientSockets
    /\ Accepted \cap dropped = {}

\* A client waits in the backlog once, before it is accepted.
BacklogInv ==
    /\ \A i, j \in 1..Len(backlog) : backlog[i] = backlog[j] => i = j
    /\ Elements(backlog) \cap (Accepted \cup dropped) = {}

\* The wake-up socket exists when the main thread has got that far.
MainInv ==
    /\ main \in {"initialize", "start"} => service = "none"
    /\ main \in {"initialize", "start", "serving", "wakeup"} => udp_sock = NoHandle
    /\ main = "wakeup" \/ udp_sock # NoHandle => end_thread_

\* The service has its listen socket.
Ready == main = "start" \/ service # "none"

\* The vector holds what is open, and nothing is before there is a vector.
VecInv ==
    IF Ready
    THEN /\ Distinct(client_socket_vec_)
         /\ Elements(client_socket_vec_) \ {Invalid, udp_sock} = {Listen} \cup ClientSockets
    ELSE Accepted = {}

\* Between the loops the set is the vector, but for a late wake-up socket.
SetInv ==
    main = "start" \/ service \in {"test", "select"} =>
        \/ client_socket_vec_ = fd_array
        \/ udp_sock # NoHandle /\ client_socket_vec_ = Append(fd_array, udp_sock)

\* During the loop over the array its first fd_count entries are open sockets,
\* each listed once, and those not visited yet have something to deliver.
ReadyInv ==
    service \in {"visit", "accept", "recv"} =>
        /\ fd_count <= Len(fd_array)
        /\ \A i \in 1..fd_count : fd_array[i] \in {Listen} \cup ClientSockets
        /\ \A i, j \in 1..fd_count : fd_array[i] = fd_array[j] => i = j
        /\ \A i \in index + 1 .. fd_count : Readable(fd_array[i])

\* What the thread handles is the entry it has got to.
CurrentInv ==
    /\ service \in {"accept", "recv"} => index <= fd_count
    /\ service = "accept" /\ index < fd_count => fd_array[index + 1] = Listen
    /\ service = "recv" =>
        /\ current \in ClientSockets
        /\ index < fd_count => fd_array[index + 1] = current

\* Sockets to be closed are open, and their clients have left and are owed
\* nothing.
CleanInv ==
    /\ closed_client_need_clean_ \subseteq ClientSockets
    /\ \A c \in Clients : taken[c] <= sent[c]
    /\ \A c \in Accepted : handle[c] \in closed_client_need_clean_ =>
            left[c] = "reset" \/ (left[c] = "closed" /\ taken[c] = sent[c])

\* The size that RefreshFDSet_ computed is right, but for a late wake-up
\* socket.
SizeInv ==
    /\ service = "copy" =>
        \/ SizeOfNewSet = socket_set_total_size_
        \/ udp_sock # NoHandle /\ SizeOfNewSet = socket_set_total_size_ + 1
    /\ FdSetFits

\* A buffer is in use during recv only.
BufferInv == inuse_buffer_cache_ = IF service = "recv" THEN 1 ELSE 0

SelectIInv ==
    /\ TypeOK /\ HandlesInv /\ BacklogInv /\ MainInv /\ VecInv /\ SetInv
    /\ ReadyInv /\ CurrentInv /\ CleanInv /\ SizeInv /\ BufferInv

\* A new entry at the end of a sequence.
LEMMA AppendEntry ==
    ASSUME NEW A, NEW seq \in Seq(A), NEW x \in A
    PROVE  /\ Append(seq, x) \in Seq(A)
           /\ Len(Append(seq, x)) = Len(seq) + 1
           /\ Elements(Append(seq, x)) = Elements(seq) \cup {x}
           /\ Distinct(seq) /\ (x = Invalid \/ x \notin Elements(seq))
                => Distinct(Append(seq, x))
<1>1. /\ Append(seq, x) \in Seq(A)
      /\ Len(Append(seq, x)) = Len(seq) + 1 /\ Len(seq) \in Nat
      /\ \A i \in 1..Len(seq) : Append(seq, x)[i] = seq[i]
      /\ Append(seq, x)[Len(seq) + 1] = x
  OBVIOUS
<1>2. \A i \in 1..Len(seq) + 1 : i \in 1..Len(seq) \/ i = Len(seq) + 1
  BY <1>1
<1>3. 1..Len(seq) \subseteq 1..Len(seq) + 1 /\ Len(seq) + 1 \in 1..Len(seq) + 1
  BY <1>1
<1>4. Elements(Append(seq, x)) = Elements(seq) \cup {x}
  BY <1>1, <1>2, <1>3 DEF Elements
<1>5. Distinct(seq) /\ (x = Invalid \/ x \notin Elements(seq)) => Distinct(Append(seq, x))
  BY <1>1, <1>2, <1>3 DEF Elements, Distinct
<1>. QED  BY <1>1, <1>4, <1>5

\* Before main initializes anything the invariant holds.
LEMMA SelectInitInv == Init => SelectIInv
<1>. SUFFICES ASSUME Init PROVE SelectIInv
  OBVIOUS
<1>. USE SelectSizes, SelectHandles DEF Init
<1>1. TypeOK
  <2>1. /\ fd_array \in Seq(Handles \cup {Listen, Invalid})
        /\ client_socket_vec_ \in Seq(Handles \cup {Listen, Invalid})
        /\ backlog \in Seq(Clients)
    OBVIOUS
  <2>2. /\ sent \in [Clients -> 0..MaxChunks] /\ taken \in [Clients -> 0..MaxChunks]
        /\ errors \in 0..MaxErrors /\ buffer_cache_ \in 0..buffer_cache_size
    OBVIOUS
  <2>. QED  BY <2>1, <2>2 DEF TypeOK, MainStates, ServiceStates
<1>2. Accepted = {} /\ ClientSockets = {}
  BY DEF Accepted, ClientSockets
<1>3. HandlesInv /\ BacklogInv /\ CleanInv
  BY <1>2 DEF HandlesInv, BacklogInv, CleanInv, Elements
<1>4. MainInv /\ VecInv /\ SetInv
  BY <1>2 DEF MainInv, VecInv, SetInv, Ready
<1>5. ReadyInv /\ CurrentInv /\ SizeInv /\ BufferInv
  BY DEF ReadyInv, CurrentInv, SizeInv, BufferInv, FdSetFits
<1>. QED  BY <1>1, <1>3, <1>4, <1>5 DEF SelectIInv

\* What depends on the clients' connections only.
ClientInv == HandlesInv /\ BacklogInv /\ CleanInv

\* The server has finitely many client sockets.
LEMMA ClientSocketsFinite ==
    ASSUME NEW S, S \subseteq ClientSockets
    PROVE  IsFiniteSet(S) /\ Cardinality(S) \in Nat
<1>1. IsFiniteSet(Accepted)
  BY SelectHandles, FS_Subset DEF Accepted
<1>. DEFINE f == [c \in Accepted |-> handle[c]]
<1>2. f \in Surjection(Accepted, ClientSockets)
  BY DEF Surjection, ClientSockets
<1>3. IsFiniteSet(ClientSockets)
  BY <1>1, <1>2, FS_Surjection
<1>. QED  BY <1>3, FS_Subset, FS_CardinalityType

\* Steps that leave the connections alone preserve what depends on them.
LEMMA ClientFrame ==
    ASSUME UNCHANGED <<handle, dropped, sent, taken, left, backlog>>
    PROVE  /\ Accepted' = Accepted
           /\ ClientSockets' = ClientSockets
           /\ \A s : Readable(s)' <=> Readable(s)
           /\ ClientInv /\ UNCHANGED <<udp_sock, closed_client_need_clean_>> => ClientInv'
<1>1. Accepted' = Accepted /\ ClientSockets' = ClientSockets
  BY DEF Accepted, ClientSockets
<1>2. \A s : Readable(s)' <=> Readable(s)
  BY DEF Readable, UnreadData
<1>3. ClientInv /\ UNCHANGED <<udp_sock, closed_client_need_clean_>> => ClientInv'
  BY <1>1 DEF ClientInv, HandlesInv, BacklogInv, CleanInv, Elements
<1>. QED  BY <1>1, <1>2, <1>3

\* What depends on the state of the loop only.
LoopInv == ReadyInv /\ CurrentInv /\ SizeInv /\ BufferInv

-----------------------------------------------------------------------------
(* The main thread's steps.                                                 *)

\* The steps of the main thread that leave the sockets alone.
LEMMA QuietMainInv ==
    ASSUME SelectIInv, InitializeFails \/ StartGTService \/ StopService
    PROVE  SelectIInv'
<1>. USE DEF SelectIInv
<1>1. /\ UNCHANGED <<udp_sock, fd_array, socket_set_total_size_, client_socket_vec_,
                     closed_client_need_clean_, fd_count, index, current, bufferVars,
                     clientVars, errors>>
      /\ \/ /\ main = "initialize" /\ main' = "done"
            /\ UNCHANGED <<service, end_thread_>>
         \/ /\ main = "start" /\ main' = "serving"
            /\ service' = "test"
            /\ UNCHANGED end_thread_
         \/ /\ main = "serving" /\ main' \in {"done", "wakeup"}
            /\ end_thread_' = TRUE
            /\ UNCHANGED service
  BY DEF InitializeFails, StartGTService, StopService, loopVars
<1>2. ClientInv' /\ Accepted' = Accepted /\ ClientSockets' = ClientSockets
      /\ \A s : Readable(s)' <=> Readable(s)
  BY <1>1, ClientFrame DEF clientVars, ClientInv
<1>3. TypeOK'
  BY <1>1 DEF TypeOK, MainStates, ServiceStates, bufferVars, clientVars
<1>4. MainInv'
  BY <1>1 DEF MainInv
<1>5. VecInv' /\ SetInv'
  BY <1>1, <1>2 DEF VecInv, SetInv, Ready, MainInv, Distinct, Elements
<1>6. LoopInv'
  BY <1>1, <1>2 DEF LoopInv, ReadyInv, CurrentInv, SizeInv, BufferInv, FdSetFits,
                    SizeOfNewSet, bufferVars, MainInv
<1>. QED  BY <1>2, <1>3, <1>4, <1>5, <1>6 DEF ClientInv, LoopInv

\* Initialize puts the listen socket into the vector and the set.
LEMMA InitializeInv ==
    ASSUME SelectIInv, Initialize
    PROVE  SelectIInv'
<1>. USE SelectSizes, SelectHandles DEF SelectIInv
<1>1. /\ UNCHANGED <<end_thread_, udp_sock, service, closed_client_need_clean_,
                     fd_count, index, current, bufferVars, clientVars, errors>>
      /\ main = "initialize" /\ main' = "start"
      /\ service = "none" /\ udp_sock = NoHandle
      /\ Accepted = {}
      /\ fd_array' = <<Listen>> /\ client_socket_vec_' = <<Listen>>
      /\ socket_set_total_size_' \in Nat \ {0}
  BY DEF Initialize, MainInv, VecInv, Ready
<1>2. ClientInv' /\ Accepted' = Accepted /\ ClientSockets' = ClientSockets
  BY <1>1, ClientFrame DEF clientVars, ClientInv
<1>3. TypeOK'
  <2>1. <<Listen>> \in Seq(Handles \cup {Listen, Invalid})
    OBVIOUS
  <2>. QED  BY <1>1, <2>1 DEF TypeOK, MainStates, bufferVars, clientVars
<1>4. MainInv'
  BY <1>1 DEF MainInv
<1>5. VecInv' /\ SetInv'
  <2>1. Elements(<<Listen>>) = {Listen} /\ Distinct(<<Listen>>)
    BY DEF Elements, Distinct
  <2>2. ClientSockets = {}
    BY <1>1 DEF ClientSockets
  <2>. QED  BY <1>1, <1>2, <2>1, <2>2 DEF VecInv, SetInv, Ready
<1>6. LoopInv'
  BY <1>1 DEF LoopInv, ReadyInv, CurrentInv, SizeInv, BufferInv, FdSetFits, bufferVars
<1>. QED  BY <1>2, <1>3, <1>4, <1>5, <1>6 DEF ClientInv, LoopInv

\* The wake-up socket comes into the vector whatever the thread is doing.
LEMMA WakeupInv ==
    ASSUME SelectIInv, WakeupSelectThread
    PROVE  SelectIInv'
<1>. USE SelectHandles DEF SelectIInv
<1>0. PICK s \in FreshHandles \cup {Invalid} :
        udp_sock' = s /\ client_socket_vec_' = Append(client_socket_vec_, s)
  BY DEF WakeupSelectThread
<1>1. /\ UNCHANGED <<end_thread_, fd_array, socket_set_total_size_,
                     closed_client_need_clean_, fd_count, index, current,
                     bufferVars, clientVars, errors>>
      /\ main = "wakeup" /\ main' = "join"
      /\ udp_sock = NoHandle /\ end_thread_
      /\ service' = service \/ (service' = "crashed" /\ service \in {"accept", "grow", "copy"})
      /\ Ready' = Ready
  BY DEF WakeupSelectThread, MainInv, UsesSocketVec, Ready
<1>2. /\ s \in Handles \cup {Invalid} /\ s \notin ClientSockets
      /\ s # Listen /\ s # NoHandle
      /\ client_socket_vec_ \in Seq(SocketValues)
      /\ Len(client_socket_vec_) \in Nat
  <2>1. \A c \in Accepted : handle[c] \in Handles
    BY DEF TypeOK, Accepted
  <2>. QED  BY <2>1 DEF FreshHandles, TypeOK, SocketValues, ClientSockets, Accepted
<1>3. Accepted' = Accepted /\ ClientSockets' = ClientSockets
      /\ \A x : Readable(x)' <=> Readable(x)
  BY <1>1, ClientFrame DEF clientVars
<1>4. ClientInv'
  BY <1>0, <1>1, <1>2, <1>3
  DEF ClientInv, HandlesInv, BacklogInv, CleanInv, clientVars, Elements
<1>5. /\ client_socket_vec_' \in Seq(SocketValues)
      /\ Len(client_socket_vec_') = Len(client_socket_vec_) + 1
      /\ Elements(client_socket_vec_') = Elements(client_socket_vec_) \cup {s}
      /\ Distinct(client_socket_vec_) /\ (s = Invalid \/ s \notin Elements(client_socket_vec_))
           => Distinct(client_socket_vec_')
  <2>1. s \in SocketValues
    BY <1>2 DEF SocketValues
  <2>. QED  BY <1>0, <1>2, <2>1, AppendEntry
<1>6. TypeOK'
  BY <1>0, <1>1, <1>2, <1>5
  DEF TypeOK, MainStates, ServiceStates, SocketValues, bufferVars, clientVars
<1>7. MainInv'
  BY <1>0, <1>1, <1>2 DEF MainInv
<1>8. VecInv'
  <2>1. CASE Ready
    <3>1. NoHandle \notin Elements(client_socket_vec_)
      BY DEF Elements, TypeOK
    <3>2. Elements(client_socket_vec_) \ {Invalid} = {Listen} \cup ClientSockets
      BY <1>1, <2>1, <3>1 DEF VecInv
    <3>3. s = Invalid \/ s \notin Elements(client_socket_vec_)
      BY <1>2, <3>2
    <3>4. Elements(client_socket_vec_') \ {Invalid, s} = {Listen} \cup ClientSockets
      BY <1>2, <1>5, <3>2
    <3>5. Distinct(client_socket_vec_')
      BY <1>5, <2>1, <3>3 DEF VecInv
    <3>. QED  BY <1>0, <1>1, <1>3, <2>1, <3>4, <3>5 DEF VecInv
  <2>2. CASE ~Ready
    BY <1>1, <1>3, <2>2 DEF VecInv
  <2>. QED  BY <2>1, <2>2
<1>9. SetInv'
  <2>1. ASSUME service \in {"test", "select"} PROVE client_socket_vec_ = fd_array
    BY <1>1, <2>1 DEF SetInv
  <2>2. ASSUME main' = "start" \/ service' \in {"test", "select"}
        PROVE  service \in {"test", "select"}
    BY <1>1, <2>2
  <2>. QED  BY <1>0, <1>1, <1>2, <2>1, <2>2 DEF SetInv
<1>10. ReadyInv' /\ CurrentInv'
  BY <1>1, <1>3 DEF ReadyInv, CurrentInv
<1>11. SizeInv' /\ BufferInv'
  <2>1. Cardinality(closed_client_need_clean_) \in Int => SizeOfNewSet' = SizeOfNewSet + 1
    BY <1>1, <1>2, <1>5 DEF SizeOfNewSet
  <2>2. Cardinality(closed_client_need_clean_) \in Int
    <3>1. closed_client_need_clean_ \subseteq ClientSockets /\ IsFiniteSet(Clients)
      BY DEF CleanInv
    <3>. QED  BY <3>1, ClientSocketsFinite
  <2>. QED  BY <1>0, <1>1, <1>2, <2>1, <2>2
            DEF SizeInv, BufferInv, FdSetFits, bufferVars
<1>. QED  BY <1>4, <1>6, <1>7, <1>8, <1>9, <1>10, <1>11 DEF ClientInv

\* The join ends the loop for good.
LEMMA JoinInv ==
    ASSUME SelectIInv, JoinServiceThread
    PROVE  SelectIInv'
<1>. USE DEF SelectIInv
<1>1. /\ UNCHANGED <<end_thread_, udp_sock, service, socket_set_total_size_,
                     client_socket_vec_, closed_client_need_clean_, fd_count,
                     index, current, bufferVars, clientVars, errors>>
      /\ main = "join" /\ main' = "done" /\ service = "ended"
      /\ fd_array' = <<>>
  BY DEF JoinServiceThread
<1>2. ClientInv' /\ Accepted' = Accepted /\ ClientSockets' = ClientSockets
  BY <1>1, ClientFrame DEF clientVars, ClientInv
<1>3. TypeOK'
  BY <1>1 DEF TypeOK, MainStates, bufferVars, clientVars
<1>4. MainInv' /\ VecInv' /\ SetInv'
  BY <1>1, <1>2 DEF MainInv, VecInv, SetInv, Ready, Distinct, Elements
<1>5. LoopInv'
  BY <1>1 DEF LoopInv, ReadyInv, CurrentInv, SizeInv, BufferInv, FdSetFits, bufferVars,
              TypeOK
<1>. QED  BY <1>2, <1>3, <1>4, <1>5 DEF ClientInv, LoopInv

-----------------------------------------------------------------------------
(* The service thread's steps.                                              *)

\* Whenever select is about to be called, the set lists what is open.
LEMMA SetMatchesVec ==
    ASSUME SelectIInv, main = "start" \/ service \in {"test", "select"}
    PROVE  /\ Distinct(fd_array)
           /\ Elements(fd_array) \ {Invalid, udp_sock} = {Listen} \cup ClientSockets
<1>. USE DEF SelectIInv
<1>1. /\ Distinct(client_socket_vec_)
      /\ Elements(client_socket_vec_) \ {Invalid, udp_sock} = {Listen} \cup ClientSockets
  BY DEF VecInv, Ready
<1>2. CASE client_socket_vec_ = fd_array
  BY <1>1, <1>2
<1>3. CASE udp_sock # NoHandle /\ client_socket_vec_ = Append(fd_array, udp_sock)
  <2>1. fd_array \in Seq(SocketValues) /\ udp_sock \in SocketValues
    BY <1>3 DEF TypeOK, SocketValues
  <2>2. Elements(client_socket_vec_) = Elements(fd_array) \cup {udp_sock}
    BY <1>3, <2>1, AppendEntry
  <2>3. Distinct(fd_array)
    <3>1. /\ Len(client_socket_vec_) = Len(fd_array) + 1 /\ Len(fd_array) \in Nat
          /\ \A i \in 1..Len(fd_array) : client_socket_vec_[i] = fd_array[i]
      BY <1>3, <2>1
    <3>2. 1..Len(fd_array) \subseteq 1..Len(client_socket_vec_)
      BY <3>1
    <3>. QED  BY <1>1, <3>1, <3>2 DEF Distinct
  <2>. QED  BY <1>1, <2>2, <2>3
<1>. QED  BY <1>2, <1>3 DEF SetInv

\* The head of the loop, and a select that fails.
LEMMA QuietServiceInv ==
    ASSUME SelectIInv, TestEndThread \/ SelectFails
    PROVE  SelectIInv'
<1>. USE DEF SelectIInv
<1>1. /\ UNCHANGED <<main, udp_sock, fd_array, socket_set_total_size_,
                     client_socket_vec_, closed_client_need_clean_, fd_count,
                     index, current, bufferVars, clientVars>>
      /\ service \in {"test", "select"} /\ service' \in {"test", "select", "ended"}
      /\ end_thread_ => end_thread_'
      /\ end_thread_' \in BOOLEAN
      /\ errors' \in 0..MaxErrors
  <2>1. CASE TestEndThread
    BY <2>1 DEF TestEndThread, LoopEnds, TypeOK
  <2>2. CASE SelectFails
    <3>1. errors' \in 0..MaxErrors
      BY <2>2, SelectSizes DEF SelectFails, TypeOK
    <3>. QED  BY <2>2, <3>1 DEF SelectFails, mainVars, TypeOK
  <2>. QED  BY <2>1, <2>2
<1>2. ClientInv' /\ Accepted' = Accepted /\ ClientSockets' = ClientSockets
  BY <1>1, ClientFrame DEF clientVars, ClientInv
<1>3. TypeOK'
  BY <1>1 DEF TypeOK, ServiceStates, bufferVars, clientVars
<1>4. MainInv' /\ VecInv' /\ SetInv'
  BY <1>1, <1>2 DEF MainInv, VecInv, SetInv, Ready, Distinct, Elements
<1>5. LoopInv'
  BY <1>1 DEF LoopInv, ReadyInv, CurrentInv, SizeInv, BufferInv, FdSetFits, bufferVars
<1>. QED  BY <1>2, <1>3, <1>4, <1>5 DEF ClientInv, LoopInv

\* select puts the sockets that have something to deliver in front.
LEMMA SelectInv ==
    ASSUME SelectIInv, Select
    PROVE  SelectIInv'
<1>. USE SelectHandles DEF SelectIInv
<1>. DEFINE able == {s \in Elements(fd_array) : Readable(s)}
            ready == Selected(fd_array, able)
<1>1. /\ UNCHANGED <<mainVars, socket_set_total_size_, client_socket_vec_,
                     closed_client_need_clean_, current, bufferVars, clientVars,
                     errors>>
      /\ service = "select" /\ service' = "visit" /\ index' = 0
      /\ Invalid \notin Elements(fd_array)
      /\ fd_count' = Len(ready)
      /\ fd_array' = ready \o SubSeq(fd_array, Len(ready) + 1, Len(fd_array))
  BY DEF Select
<1>2. /\ ready \in Seq(SocketValues)
      /\ Len(ready) <= Len(fd_array)
      /\ Elements(ready) = Elements(fd_array) \cap able
      /\ \A n \in 1..Len(ready) : /\ Place(fd_array, able, n) \in 1..Len(fd_array)
                                  /\ ready[n] = fd_array[Place(fd_array, able, n)]
      /\ \A m, n \in 1..Len(ready) :
            Place(fd_array, able, m) = Place(fd_array, able, n) => m = n
  <2>1. fd_array \in Seq(SocketValues)
    BY DEF TypeOK, SocketValues
  <2>2. Places(fd_array, able) \subseteq 1..Len(fd_array)
    BY DEF Places
  <2>. HIDE DEF able
  <2>. QED  BY <2>1, <2>2, SelectedEntries
<1>3. \A s \in able : s \in SocketValues /\ Readable(s)
  BY DEF Elements, TypeOK, SocketValues
<1>. HIDE DEF able, ready
<1>4. /\ fd_array \in Seq(SocketValues) /\ Len(fd_array) \in Nat
      /\ Len(ready) \in Nat
  BY <1>2 DEF TypeOK, SocketValues
<1>5. /\ fd_array' \in Seq(SocketValues)
      /\ Len(fd_array') = Len(fd_array)
      /\ \A i \in 1..Len(ready) : fd_array'[i] = ready[i]
  <2>. DEFINE rest == SubSeq(fd_array, Len(ready) + 1, Len(fd_array))
  <2>1. rest \in Seq(SocketValues) /\ Len(rest) = Len(fd_array) - Len(ready)
    BY <1>2, <1>4
  <2>. HIDE DEF rest
  <2>2. /\ ready \o rest \in Seq(SocketValues)
        /\ Len(ready \o rest) = Len(ready) + Len(rest)
        /\ \A i \in 1..Len(ready) : (ready \o rest)[i] = ready[i]
    BY <1>2, <1>4, <2>1
  <2>. QED  BY <1>1, <1>4, <2>1, <2>2 DEF rest
<1>6. /\ ClientInv' /\ Accepted' = Accepted /\ ClientSockets' = ClientSockets
      /\ \A s : Readable(s)' <=> Readable(s)
  BY <1>1, ClientFrame DEF clientVars, ClientInv, mainVars
<1>7. TypeOK'
  BY <1>1, <1>2, <1>4, <1>5
  DEF TypeOK, ServiceStates, SocketValues, mainVars, bufferVars, clientVars
<1>8. MainInv' /\ VecInv' /\ SetInv'
  BY <1>1, <1>6 DEF MainInv, VecInv, SetInv, Ready, Distinct, Elements, mainVars
<1>9. ASSUME NEW i \in 1..Len(ready)
      PROVE  /\ fd_array'[i] \in {Listen} \cup ClientSockets
             /\ Readable(fd_array'[i])
  <2>1. fd_array'[i] \in able
    BY <1>2, <1>5 DEF Elements
  <2>2. fd_array'[i] \in SocketValues /\ Readable(fd_array'[i])
    BY <1>3, <2>1
  <2>. QED  BY <2>2 DEF Readable, SocketValues, ClientSockets, Accepted
<1>10. \A i, j \in 1..Len(ready) : fd_array'[i] = fd_array'[j] => i = j
  <2>1. \A k \in 1..Len(fd_array) : fd_array[k] # Invalid
    BY <1>1 DEF Elements
  <2>2. Distinct(fd_array)
    BY <1>1, SetMatchesVec
  <2>. QED  BY <1>2, <1>5, <2>1, <2>2 DEF Distinct
<1>11. ReadyInv'
  <2>1. \A i \in index' + 1 .. fd_count' : i \in 1..Len(ready)
    BY <1>1, <1>4
  <2>. QED  BY <1>1, <1>2, <1>5, <1>6, <1>9, <1>10, <2>1 DEF ReadyInv
<1>12. CurrentInv' /\ SizeInv' /\ BufferInv'
  BY <1>1, <1>5 DEF CurrentInv, SizeInv, BufferInv, FdSetFits, bufferVars, mainVars
<1>. QED  BY <1>6, <1>7, <1>8, <1>11, <1>12 DEF ClientInv

\* One round of the loop, up to the call that may block: FD_ISSET lets the
\* thread handle nothing but open sockets that select reported.
LEMMA VisitInv ==
    ASSUME SelectIInv, Visit
    PROVE  SelectIInv'
<1>. USE SelectHandles, SelectSizes DEF SelectIInv
<1>1. PICK s \in Entries :
        \/ /\ ~FD_ISSET(s)
           /\ index' = index + 1
           /\ UNCHANGED <<service, current, bufferVars>>
        \/ /\ FD_ISSET(s) /\ s = Listen
           /\ service' = "accept"
           /\ UNCHANGED <<index, current, bufferVars>>
        \/ /\ FD_ISSET(s) /\ s # Listen
           /\ service' = "recv"
           /\ current' = s
           /\ GetSelectBuffer
           /\ UNCHANGED index
  BY DEF Visit
<1>2. /\ UNCHANGED <<mainVars, fd_array, socket_set_total_size_,
                     client_socket_vec_, closed_client_need_clean_, fd_count,
                     clientVars, errors>>
      /\ service = "visit" /\ service' \in {"visit", "accept", "recv"}
      /\ index <= fd_count
      /\ index \in Nat /\ fd_count \in Nat
  <2>1. index <= fd_count
    BY DEF Visit, LoopOver, TypeOK
  <2>. QED  BY <1>1, <2>1 DEF Visit, TypeOK
<1>3. /\ ClientInv' /\ Accepted' = Accepted /\ ClientSockets' = ClientSockets
      /\ \A x : Readable(x)' <=> Readable(x)
  BY <1>2, ClientFrame DEF clientVars, ClientInv, mainVars
<1>4. index < fd_count => s = fd_array[index + 1]
  <2>1. fd_count <= Len(fd_array) /\ Len(fd_array) \in Nat
    BY <1>2 DEF ReadyInv, TypeOK
  <2>. QED  BY <1>1, <1>2, <2>1 DEF Entries
<1>5. FD_ISSET(s) => s \in {Listen} \cup ClientSockets
  BY <1>2 DEF FD_ISSET, ReadyInv
<1>6. \A x \in ClientSockets : x \in Handles
  BY DEF ClientSockets, Accepted, TypeOK
<1>7. TypeOK'
  <2>1. UNCHANGED bufferVars \/ GetSelectBuffer
    BY <1>1
  <2>2. buffer_cache_' \in 0..buffer_cache_size /\ inuse_buffer_cache_' \in Nat
    BY <2>1 DEF GetSelectBuffer, bufferVars, TypeOK
  <2>3. index' \in Nat /\ current' \in Handles \cup {NoHandle}
    BY <1>1, <1>2, <1>5, <1>6 DEF TypeOK
  <2>. QED  BY <1>2, <2>2, <2>3 DEF TypeOK, ServiceStates, mainVars, clientVars
<1>8. MainInv' /\ VecInv' /\ SetInv'
  BY <1>2, <1>3 DEF MainInv, VecInv, SetInv, Ready, Distinct, Elements, mainVars
<1>9. ReadyInv'
  <2>1. index' \in Nat /\ index <= index'
    BY <1>1, <1>2
  <2>2. \A i \in index' + 1 .. fd_count : i \in index + 1 .. fd_count
    <3>1. \A a, b, n \in Nat : a <= b => b + 1 .. n \subseteq a + 1 .. n
      OBVIOUS
    <3>. QED  BY <1>2, <2>1, <3>1
  <2>. QED  BY <1>2, <1>3, <2>2 DEF ReadyInv
<1>10. CurrentInv'
  BY <1>1, <1>2, <1>3, <1>4, <1>5 DEF CurrentInv
<1>11. SizeInv'
  BY <1>2 DEF SizeInv, FdSetFits, mainVars
<1>12. BufferInv'
  BY <1>1, <1>2 DEF BufferInv, GetSelectBuffer, bufferVars
<1>. QED  BY <1>3, <1>7, <1>8, <1>9, <1>10, <1>11, <1>12 DEF ClientInv

\* The end of the loop over the array.
LEMMA EndVisitsInv ==
    ASSUME SelectIInv, EndVisits
    PROVE  SelectIInv'
<1>. USE DEF SelectIInv
<1>1. /\ UNCHANGED <<mainVars, fd_array, socket_set_total_size_,
                     client_socket_vec_, closed_client_need_clean_, current,
                     bufferVars, clientVars, errors>>
      /\ service = "visit" /\ service' = "grow" /\ index' = 0 /\ fd_count' = 0
  BY DEF EndVisits
<1>2. ClientInv' /\ Accepted' = Accepted /\ ClientSockets' = ClientSockets
  BY <1>1, ClientFrame DEF clientVars, ClientInv, mainVars
<1>3. TypeOK'
  BY <1>1 DEF TypeOK, ServiceStates, mainVars, bufferVars, clientVars
<1>4. MainInv' /\ VecInv' /\ SetInv'
  BY <1>1, <1>2 DEF MainInv, VecInv, SetInv, Ready, Distinct, Elements, mainVars
<1>5. LoopInv'
  BY <1>1 DEF LoopInv, ReadyInv, CurrentInv, SizeInv, BufferInv, FdSetFits, bufferVars,
              mainVars
<1>. QED  BY <1>2, <1>3, <1>4, <1>5 DEF ClientInv, LoopInv

\* The vector has an entry for every socket that is to be closed.
LEMMA ClosedAreListed ==
    ASSUME SelectIInv, Ready
    PROVE  /\ closed_client_need_clean_ \subseteq Elements(client_socket_vec_)
           /\ IsFiniteSet(closed_client_need_clean_)
           /\ Cardinality(Places(client_socket_vec_, closed_client_need_clean_))
                = Cardinality(closed_client_need_clean_)
<1>. USE SelectHandles DEF SelectIInv
<1>. DEFINE vec == client_socket_vec_
            closed == closed_client_need_clean_
<1>1. closed \subseteq Elements(vec) /\ IsFiniteSet(closed)
  <2>1. closed \subseteq ClientSockets
    BY DEF CleanInv
  <2>2. {Listen} \cup ClientSockets \subseteq Elements(vec)
    BY DEF VecInv
  <2>. QED  BY <2>1, <2>2, ClientSocketsFinite
<1>2. Invalid \notin closed
  BY DEF TypeOK
<1>. DEFINE f == [k \in Places(vec, closed) |-> vec[k]]
<1>3. f \in [Places(vec, closed) -> closed]
  BY DEF Places
<1>4. \A k, m \in Places(vec, closed) : f[k] = f[m] => k = m
  BY <1>2 DEF VecInv, Distinct, Places
<1>5. \A x \in closed : \E k \in Places(vec, closed) : f[k] = x
  BY <1>1 DEF Elements, Places
<1>6. f \in Bijection(Places(vec, closed), closed)
  BY <1>3, <1>4, <1>5 DEF Bijection, Injection, Surjection, IsInjective
<1>7. vec \in Seq(SocketValues)
  BY DEF TypeOK, SocketValues
<1>8. IsFiniteSet(Places(vec, closed))
  BY <1>7, PlacesFinite
<1>. HIDE DEF f, vec, closed
<1>9. Cardinality(closed) = Cardinality(Places(vec, closed))
  BY <1>6, <1>8, FS_Bijection DEF ExistsBijection
<1>. QED  BY <1>1, <1>9 DEF vec, closed

\* RefreshFDSet_ computes the size of the set that it is going to fill.
LEMMA GrowSetInv ==
    ASSUME SelectIInv, GrowSet
    PROVE  SelectIInv'
<1>. USE DEF SelectIInv
<1>1. /\ UNCHANGED <<mainVars, client_socket_vec_, closed_client_need_clean_,
                     fd_count, index, current, bufferVars, clientVars, errors>>
      /\ service = "grow" /\ service' = "copy"
      /\ fd_array' = <<>> /\ socket_set_total_size_' = SizeOfNewSet
  BY DEF GrowSet
<1>2. ClientInv' /\ Accepted' = Accepted /\ ClientSockets' = ClientSockets
  BY <1>1, ClientFrame DEF clientVars, ClientInv, mainVars
<1>3. SizeOfNewSet \in Nat
  <2>1. client_socket_vec_ \in Seq(SocketValues)
    BY DEF TypeOK, SocketValues
  <2>2. Cardinality(closed_client_need_clean_) \in Nat
        /\ Cardinality(closed_client_need_clean_) <= Len(client_socket_vec_)
    BY <1>1, <2>1, ClosedAreListed, PlacesFinite DEF Ready
  <2>. QED  BY <2>1, <2>2 DEF SizeOfNewSet
<1>4. TypeOK'
  BY <1>1, <1>3 DEF TypeOK, ServiceStates, mainVars, bufferVars, clientVars
<1>5. MainInv' /\ VecInv' /\ SetInv'
  BY <1>1, <1>2 DEF MainInv, VecInv, SetInv, Ready, Distinct, Elements, mainVars
<1>6. ReadyInv' /\ CurrentInv' /\ BufferInv'
  BY <1>1 DEF ReadyInv, CurrentInv, BufferInv, bufferVars
<1>7. SizeInv'
  BY <1>1, <1>3 DEF SizeInv, FdSetFits, SizeOfNewSet
<1>. QED  BY <1>2, <1>4, <1>5, <1>6, <1>7 DEF ClientInv

\* The first entry of a queue without repetitions.
LEMMA TailEntries ==
    ASSUME NEW A, NEW q \in Seq(A), q # <<>>,
           \A i, j \in 1..Len(q) : q[i] = q[j] => i = j
    PROVE  /\ Tail(q) \in Seq(A)
           /\ Head(q) \in A /\ Head(q) \in Elements(q)
           /\ Elements(Tail(q)) \subseteq Elements(q) \ {Head(q)}
           /\ \A i, j \in 1..Len(Tail(q)) : Tail(q)[i] = Tail(q)[j] => i = j
<1>1. /\ Tail(q) \in Seq(A) /\ Head(q) \in A /\ Head(q) = q[1]
      /\ Len(q) \in Nat \ {0} /\ Len(Tail(q)) = Len(q) - 1
      /\ \A i \in 1..Len(Tail(q)) : Tail(q)[i] = q[i + 1]
  BY HeadTailProperties
<1>2. \A i \in 1..Len(Tail(q)) : i \in Nat /\ i + 1 \in 1..Len(q) /\ i + 1 # 1
  BY <1>1
<1>3. 1 \in 1..Len(q)
  BY <1>1
<1>4. Elements(Tail(q)) \subseteq Elements(q) \ {Head(q)}
  BY <1>1, <1>2, <1>3 DEF Elements
<1>5. \A i, j \in 1..Len(Tail(q)) : Tail(q)[i] = Tail(q)[j] => i = j
  <2>1. \A i, j \in 1..Len(Tail(q)) : Tail(q)[i] = Tail(q)[j] => i + 1 = j + 1
    BY <1>1, <1>2
  <2>2. \A i, j \in 1..Len(Tail(q)) : i + 1 = j + 1 => i = j
    BY <1>2
  <2>. QED  BY <2>1, <2>2
<1>. QED  BY <1>1, <1>3, <1>4, <1>5 DEF Elements

\* The sockets behind the current entry.
Behind == {fd_array[i] : i \in index + 2 .. fd_count}

\* The current entry is not listed again behind itself.
LEMMA BehindCurrent ==
    ASSUME SelectIInv, service \in {"accept", "recv"}
    PROVE  /\ service = "accept" => Listen \notin Behind
           /\ service = "recv" => current \notin Behind
           /\ \A x \in Behind : x \in {Listen} \cup ClientSockets /\ Readable(x)
<1>. USE DEF SelectIInv
<1>1. index \in Nat /\ fd_count \in Nat
  BY DEF TypeOK
<1>2. ASSUME NEW i \in index + 2 .. fd_count
      PROVE  /\ i \in 1..fd_count /\ i \in index + 1 .. fd_count
             /\ index + 1 \in 1..fd_count /\ i # index + 1 /\ index < fd_count
  BY <1>1
<1>. QED  BY <1>2 DEF Behind, ReadyInv, CurrentInv

\* It is enough for the loop that those behind stay open and readable.
LEMMA NextEntry ==
    ASSUME SelectIInv, service \in {"accept", "recv"}, service' = "visit",
           index' = index + 1, UNCHANGED <<fd_array, fd_count>>,
           ClientSockets \subseteq ClientSockets',
           \A x \in Behind : Readable(x)'
    PROVE  ReadyInv' /\ CurrentInv'
<1>. USE DEF SelectIInv
<1>1. index \in Nat /\ fd_count \in Nat
  BY DEF TypeOK
<1>2. \A i \in index' + 1 .. fd_count' : Readable(fd_array[i])'
  BY <1>1 DEF Behind
<1>3. ReadyInv'
  BY <1>2 DEF ReadyInv
<1>. QED  BY <1>3 DEF CurrentInv

\* A failed accept puts INVALID_SOCKET into the vector like any other.
LEMMA AcceptFailsInv ==
    ASSUME SelectIInv, Accept,
           client_socket_vec_' = Append(client_socket_vec_, Invalid),
           backlog' \in {backlog, Tail(backlog)},
           UNCHANGED handle
    PROVE  SelectIInv'
<1>. USE SelectHandles DEF SelectIInv
<1>1. /\ UNCHANGED <<mainVars, fd_array, socket_set_total_size_,
                     closed_client_need_clean_, fd_count, current, bufferVars,
                     dropped, sent, taken, left, discarded, errors>>
      /\ service = "accept" /\ service' = "visit" /\ index' = index + 1
      /\ backlog # <<>>
  BY DEF Accept
<1>2. /\ client_socket_vec_' \in Seq(SocketValues)
      /\ Elements(client_socket_vec_') = Elements(client_socket_vec_) \cup {Invalid}
      /\ Distinct(client_socket_vec_) => Distinct(client_socket_vec_')
  <2>1. client_socket_vec_ \in Seq(SocketValues) /\ Invalid \in SocketValues
    BY DEF TypeOK, SocketValues
  <2>. QED  BY <2>1, AppendEntry
<1>3. Accepted' = Accepted /\ ClientSockets' = ClientSockets
  BY <1>1 DEF Accepted, ClientSockets
<1>4. /\ backlog' \in Seq(Clients)
      /\ Elements(backlog') \subseteq Elements(backlog)
      /\ \A i, j \in 1..Len(backlog') : backlog'[i] = backlog'[j] => i = j
  <2>1. backlog \in Seq(Clients) /\ \A i, j \in 1..Len(backlog) : backlog[i] = backlog[j] => i = j
    BY DEF TypeOK, BacklogInv
  <2>2. CASE backlog' = backlog
    BY <2>1, <2>2
  <2>3. CASE backlog' = Tail(backlog)
    BY <1>1, <2>1, <2>3, TailEntries
  <2>. QED  BY <2>2, <2>3
<1>5. TypeOK'
  BY <1>1, <1>2, <1>4
  DEF TypeOK, ServiceStates, SocketValues, mainVars, bufferVars
<1>6. ClientInv'
  <2>1. HandlesInv' /\ CleanInv'
    BY <1>1, <1>3 DEF HandlesInv, CleanInv, mainVars
  <2>2. BacklogInv'
    BY <1>1, <1>3, <1>4 DEF BacklogInv
  <2>. QED  BY <2>1, <2>2 DEF ClientInv
<1>7. MainInv' /\ SetInv'
  BY <1>1 DEF MainInv, SetInv, mainVars
<1>8. VecInv'
  <2>1. Ready /\ Ready'
    BY <1>1 DEF Ready
  <2>. QED  BY <1>1, <1>2, <1>3, <2>1 DEF VecInv, mainVars
<1>9. ReadyInv' /\ CurrentInv'
  <2>1. ASSUME NEW x \in Behind PROVE Readable(x)'
    <3>1. x # Listen /\ Readable(x)
      BY <1>1, BehindCurrent
    <3>. QED  BY <1>1, <3>1 DEF Readable, UnreadData
  <2>. QED  BY <1>1, <1>3, <2>1, NextEntry
<1>10. SizeInv' /\ BufferInv'
  BY <1>1 DEF SizeInv, BufferInv, FdSetFits, bufferVars, mainVars
<1>. QED  BY <1>5, <1>6, <1>7, <1>8, <1>9, <1>10 DEF ClientInv

\* A client that is accepted gets a handle of its own.
LEMMA AcceptSucceedsInv ==
    ASSUME SelectIInv, Accept, NEW s \in FreshHandles, NEW c,
           c = Head(backlog),
           handle' = [handle EXCEPT ![c] = s],
           client_socket_vec_' = Append(client_socket_vec_, s),
           backlog' = Tail(backlog)
    PROVE  /\ SelectIInv'
           /\ c \in Clients /\ c \notin Accepted \cup dropped
           /\ Accepted' = Accepted \cup {c}
<1>. USE SelectHandles DEF SelectIInv
<1>1. /\ UNCHANGED <<mainVars, fd_array, socket_set_total_size_,
                     closed_client_need_clean_, fd_count, current, bufferVars,
                     dropped, sent, taken, left, discarded, errors>>
      /\ service = "accept" /\ service' = "visit" /\ index' = index + 1
      /\ backlog # <<>>
  BY DEF Accept
<1>2. /\ backlog' \in Seq(Clients)
      /\ c \in Clients /\ c \notin Accepted \cup dropped
      /\ Elements(backlog') \subseteq Elements(backlog) \ {c}
      /\ \A i, j \in 1..Len(backlog') : backlog'[i] = backlog'[j] => i = j
  <2>1. backlog \in Seq(Clients) /\ \A i, j \in 1..Len(backlog) : backlog[i] = backlog[j] => i = j
    BY DEF TypeOK, BacklogInv
  <2>2. /\ backlog' \in Seq(Clients)
        /\ c \in Clients /\ c \in Elements(backlog)
        /\ Elements(backlog') \subseteq Elements(backlog) \ {c}
        /\ \A i, j \in 1..Len(backlog') : backlog'[i] = backlog'[j] => i = j
    BY <1>1, <2>1, TailEntries
  <2>. QED  BY <2>2 DEF BacklogInv
<1>3. /\ s \in Handles /\ s # NoHandle /\ s # udp_sock
      /\ \A d \in Clients : handle[d] # s
      /\ handle \in [Clients -> Handles \cup {NoHandle}]
      /\ handle[c] = NoHandle
  BY <1>2 DEF FreshHandles, TypeOK, Accepted
<1>4. /\ Accepted' = Accepted \cup {c}
      /\ ClientSockets' = ClientSockets \cup {s}
      /\ \A d \in Clients \ {c} : handle'[d] = handle[d]
      /\ handle'[c] = s
      /\ handle' \in [Clients -> Handles \cup {NoHandle}]
  <2>1. /\ handle' \in [Clients -> Handles \cup {NoHandle}]
        /\ handle'[c] = s
        /\ \A d \in Clients \ {c} : handle'[d] = handle[d]
    BY <1>2, <1>3
  <2>2. Accepted' = Accepted \cup {c}
    BY <1>2, <1>3, <2>1 DEF Accepted
  <2>3. ClientSockets' = ClientSockets \cup {s}
    <3>1. c \notin Accepted /\ \A d \in Accepted : d \in Clients \ {c}
      BY <1>2 DEF Accepted
    <3>. QED  BY <2>1, <2>2, <3>1 DEF ClientSockets
  <2>. QED  BY <2>1, <2>2, <2>3
<1>5. s \notin ClientSockets /\ \A d \in Accepted : d \in Clients \ {c}
  BY <1>2, <1>3 DEF ClientSockets, Accepted
<1>6. Elements(client_socket_vec_) \ {Invalid, udp_sock} = {Listen} \cup ClientSockets
      /\ Distinct(client_socket_vec_)
  BY <1>1 DEF VecInv, Ready
<1>7. /\ client_socket_vec_' \in Seq(SocketValues)
      /\ Elements(client_socket_vec_') = Elements(client_socket_vec_) \cup {s}
      /\ Distinct(client_socket_vec_')
  <2>1. client_socket_vec_ \in Seq(SocketValues) /\ s \in SocketValues
    BY <1>3 DEF TypeOK, SocketValues
  <2>2. s \notin Elements(client_socket_vec_)
    BY <1>3, <1>5, <1>6
  <2>. QED  BY <1>6, <2>1, <2>2, AppendEntry
<1>8. TypeOK'
  BY <1>1, <1>2, <1>4, <1>7
  DEF TypeOK, ServiceStates, SocketValues, mainVars, bufferVars
<1>9. ClientInv'
  <2>1. HandlesInv'
    BY <1>1, <1>2, <1>3, <1>4, <1>5 DEF HandlesInv, mainVars, ClientSockets
  <2>2. BacklogInv'
    BY <1>1, <1>2, <1>4 DEF BacklogInv
  <2>3. CleanInv'
    BY <1>1, <1>4, <1>5 DEF CleanInv
  <2>. QED  BY <2>1, <2>2, <2>3 DEF ClientInv
<1>10. MainInv' /\ SetInv'
  BY <1>1 DEF MainInv, SetInv, mainVars
<1>11. VecInv'
  <2>1. Ready'
    BY <1>1 DEF Ready
  <2>2. Elements(client_socket_vec_') \ {Invalid, udp_sock} = {Listen} \cup ClientSockets'
    BY <1>3, <1>4, <1>6, <1>7
  <2>. QED  BY <1>1, <1>7, <2>1, <2>2 DEF VecInv, mainVars
<1>12. ReadyInv' /\ CurrentInv'
  <2>1. ASSUME NEW x \in Behind PROVE Readable(x)'
    <3>1. x # Listen /\ Readable(x) /\ x \in ClientSockets
      BY <1>1, BehindCurrent
    <3>2. PICK d \in Clients : handle[d] = x /\ (UnreadData(d) \/ left[d] # "no")
      BY <3>1 DEF Readable
    <3>3. d \in Clients \ {c}
      BY <1>3, <3>1, <3>2 DEF ClientSockets, Accepted
    <3>4. handle'[d] = x /\ (UnreadData(d)' \/ left'[d] # "no")
      BY <1>1, <1>4, <3>2, <3>3 DEF UnreadData
    <3>. QED  BY <3>1, <3>4 DEF Readable
  <2>. QED  BY <1>1, <1>4, <2>1, NextEntry
<1>13. SizeInv' /\ BufferInv'
  BY <1>1 DEF SizeInv, BufferInv, FdSetFits, bufferVars, mainVars
<1>. QED  BY <1>2, <1>4, <1>8, <1>9, <1>10, <1>11, <1>12, <1>13 DEF ClientInv

\* accept, whether it returns a socket or not.
LEMMA AcceptInv ==
    ASSUME SelectIInv, Accept
    PROVE  SelectIInv'
<1>1. CASE \E s \in FreshHandles :
              /\ handle' = [handle EXCEPT ![Head(backlog)] = s]
              /\ client_socket_vec_' = Append(client_socket_vec_, s)
              /\ backlog' = Tail(backlog)
  BY <1>1, AcceptSucceedsInv
<1>2. CASE /\ client_socket_vec_' = Append(client_socket_vec_, Invalid)
           /\ backlog' \in {backlog, Tail(backlog)}
           /\ UNCHANGED handle
  BY <1>2, AcceptFailsInv
<1>. QED  BY <1>1, <1>2 DEF Accept

-----------------------------------------------------------------------------
(* The clients' steps.                                                      *)

\* A client that connects waits at the end of the backlog.
LEMMA ConnectInv ==
    ASSUME SelectIInv, NEW c \in Clients, Connect(c)
    PROVE  SelectIInv'
<1>. USE DEF SelectIInv
<1>1. /\ UNCHANGED <<mainVars, loopVars, bufferVars, handle, dropped, sent, taken,
                     left, discarded, errors>>
      /\ backlog' = Append(backlog, c)
      /\ c \notin Accepted \cup dropped /\ c \notin Elements(backlog)
      /\ backlog \in Seq(Clients)
  BY DEF Connect, Connected, TypeOK
<1>2. Accepted' = Accepted /\ ClientSockets' = ClientSockets
  BY <1>1 DEF Accepted, ClientSockets
<1>3. /\ backlog' \in Seq(Clients)
      /\ Len(backlog') = Len(backlog) + 1 /\ Len(backlog) \in Nat
      /\ Elements(backlog') = Elements(backlog) \cup {c}
      /\ \A i \in 1..Len(backlog) : backlog'[i] = backlog[i]
      /\ backlog'[Len(backlog) + 1] = c
  BY <1>1, AppendEntry
<1>4. BacklogInv'
  <2>1. \A i \in 1..Len(backlog') : i \in 1..Len(backlog) \/ i = Len(backlog) + 1
    BY <1>3
  <2>2. \A i, j \in 1..Len(backlog') : backlog'[i] = backlog'[j] => i = j
    BY <1>1, <1>3, <2>1 DEF BacklogInv, Elements
  <2>. QED  BY <1>1, <1>2, <1>3, <2>2 DEF BacklogInv
<1>5. TypeOK'
  BY <1>1, <1>3 DEF TypeOK, mainVars, loopVars, bufferVars
<1>6. HandlesInv' /\ CleanInv'
  BY <1>1, <1>2 DEF HandlesInv, CleanInv, mainVars, loopVars
<1>7. MainInv' /\ VecInv' /\ SetInv'
  BY <1>1, <1>2 DEF MainInv, VecInv, SetInv, Ready, Distinct, Elements, mainVars, loopVars
<1>8. \A s : Readable(s) => Readable(s)'
  <2>1. backlog' # <<>>
    BY <1>3
  <2>. QED  BY <1>1, <2>1 DEF Readable, UnreadData
<1>9. LoopInv'
  BY <1>1, <1>2, <1>8 DEF LoopInv, ReadyInv, CurrentInv, SizeInv, BufferInv, FdSetFits,
                          SizeOfNewSet, mainVars, loopVars, bufferVars
<1>. QED  BY <1>4, <1>5, <1>6, <1>7, <1>9 DEF LoopInv

\* Clients that send or leave give the server more to read.
LEMMA TalkInv ==
    ASSUME SelectIInv, NEW c \in Clients, Send(c) \/ Leave(c)
    PROVE  SelectIInv'
<1>. USE SelectSizes DEF SelectIInv
<1>1. /\ UNCHANGED <<mainVars, loopVars, bufferVars, backlog, handle, dropped,
                     taken, discarded, errors>>
      /\ left[c] = "no"
      /\ \/ /\ sent[c] < MaxChunks
            /\ sent' = [sent EXCEPT ![c] = @ + 1]
            /\ UNCHANGED left
         \/ /\ \E how \in {"closed", "reset"} : left' = [left EXCEPT ![c] = how]
            /\ UNCHANGED sent
  BY DEF Send, Leave
<1>2. /\ sent \in [Clients -> 0..MaxChunks]
      /\ taken \in [Clients -> 0..MaxChunks]
      /\ left \in [Clients -> {"no", "closed", "reset"}]
  BY DEF TypeOK
<1>3. /\ sent' \in [Clients -> 0..MaxChunks]
      /\ left' \in [Clients -> {"no", "closed", "reset"}]
      /\ \A d \in Clients : sent[d] <= sent'[d]
      /\ \A d \in Clients : left[d] # "no" => left'[d] = left[d] /\ sent'[d] = sent[d]
      /\ \A d \in Clients : left[d] = "no" => left'[d] # "no" \/ left'[d] = left[d]
  BY <1>1, <1>2
<1>4. TypeOK'
  BY <1>1, <1>3 DEF TypeOK, mainVars, loopVars, bufferVars
<1>5. Accepted' = Accepted /\ ClientSockets' = ClientSockets
  BY <1>1 DEF Accepted, ClientSockets
<1>6. HandlesInv' /\ BacklogInv'
  BY <1>1, <1>5 DEF HandlesInv, BacklogInv, Elements, mainVars
<1>7. CleanInv'
  <2>1. \A d \in Clients : taken'[d] <= sent'[d]
    BY <1>1, <1>2, <1>3 DEF CleanInv
  <2>2. \A d \in Accepted : d \in Clients
    BY DEF Accepted
  <2>3. \A d \in Accepted : handle[d] \in closed_client_need_clean_ => left[d] # "no"
    BY DEF CleanInv
  <2>. QED  BY <1>1, <1>3, <1>5, <2>1, <2>2, <2>3 DEF CleanInv, loopVars
<1>8. \A s : Readable(s) => Readable(s)'
  <2>1. ASSUME NEW d \in Clients, UnreadData(d) \/ left[d] # "no"
        PROVE  (UnreadData(d) \/ left[d] # "no")'
    BY <1>1, <1>2, <1>3, <2>1 DEF UnreadData
  <2>. QED  BY <1>1, <2>1 DEF Readable
<1>9. MainInv' /\ VecInv' /\ SetInv'
  BY <1>1, <1>5 DEF MainInv, VecInv, SetInv, Ready, Distinct, Elements, mainVars, loopVars
<1>10. LoopInv'
  BY <1>1, <1>5, <1>8 DEF LoopInv, ReadyInv, CurrentInv, SizeInv, BufferInv, FdSetFits,
                          SizeOfNewSet, mainVars, loopVars, bufferVars
<1>. QED  BY <1>4, <1>6, <1>7, <1>9, <1>10 DEF LoopInv

-----------------------------------------------------------------------------
(* recv, and the end of RefreshFDSet_.                                      *)

\* The client behind the socket that recv is called on.
LEMMA RecvClient ==
    ASSUME SelectIInv, service = "recv"
    PROVE  /\ ClientOf(current) \in Accepted /\ ClientOf(current) \in Clients
           /\ handle[ClientOf(current)] = current
<1>. USE SelectHandles DEF SelectIInv
<1>1. PICK c \in Clients : c \in Accepted /\ handle[c] = current
  BY DEF CurrentInv, ClientSockets, Accepted
<1>. DEFINE d == ClientOf(current)
<1>2. d \in Clients /\ handle[d] = current
  BY <1>1 DEF ClientOf
<1>. QED  BY <1>1, <1>2 DEF Accepted

\* recv takes some of the data of an open connection, or finds that there is
\* none and will be none.
LEMMA RecvEffect ==
    ASSUME SelectIInv, Recv, NEW c, c = ClientOf(current)
    PROVE  /\ c \in Accepted /\ c \in Clients /\ handle[c] = current
           /\ UNCHANGED <<handle, dropped>>
           /\ \/ /\ UNCHANGED closed_client_need_clean_
                 /\ \E n \in 1..(sent[c] - taken[c]) : taken' = [taken EXCEPT ![c] = @ + n]
                 /\ left[c] # "reset"
                 /\ discarded' \in {discarded, discarded \cup {c}}
                 /\ discarded' # discarded => end_thread_
              \/ /\ UNCHANGED <<taken, discarded>>
                 /\ closed_client_need_clean_' \in
                        {closed_client_need_clean_, closed_client_need_clean_ \cup {current}}
                 /\ left[c] = "reset" \/ (left[c] = "closed" /\ taken[c] = sent[c])
<1>. USE SelectHandles DEF SelectIInv
<1>1. c \in Accepted /\ c \in Clients /\ handle[c] = current /\ service = "recv"
  BY RecvClient DEF Recv
<1>2. current # Listen
  BY <1>1 DEF TypeOK
<1>3. UnreadData(c) \/ left[c] # "no"
  <2>1. PICK d \in Clients : handle[d] = current /\ (UnreadData(d) \/ left[d] # "no")
    BY <1>2 DEF Recv, Readable
  <2>2. d \in Accepted
    BY <1>1, <2>1 DEF Accepted
  <2>. QED  BY <1>1, <2>1, <2>2 DEF HandlesInv
<1>4. CASE ReadData(c)
  <2>1. MayLookLikeExitFlag => end_thread_
    BY DEF MayLookLikeExitFlag, MainInv
  <2>2. discarded' = discarded \/ (discarded' = discarded \cup {c} /\ end_thread_)
    BY <1>4, <2>1 DEF ReadData
  <2>. QED  BY <1>1, <1>4, <2>2 DEF ReadData, UnreadData
<1>5. CASE ReadEnd(c)
  <2>1. sent[c] \in Nat /\ taken[c] \in Nat /\ taken[c] <= sent[c]
        /\ left[c] \in {"no", "closed", "reset"}
    BY <1>1, SelectSizes DEF TypeOK, CleanInv
  <2>2. left[c] = "reset" \/ (left[c] = "closed" /\ taken[c] = sent[c])
    BY <1>3, <1>5, <2>1 DEF ReadEnd, UnreadData
  <2>. QED  BY <1>1, <1>5, <2>2 DEF ReadEnd, DelEvent
<1>. QED  BY <1>4, <1>5 DEF Recv

\* ProcessReadEvent_ marks sockets of clients that are done.
LEMMA RecvInv ==
    ASSUME SelectIInv, Recv
    PROVE  SelectIInv'
<1>. USE SelectSizes, SelectHandles DEF SelectIInv
<1>1. /\ UNCHANGED <<mainVars, fd_array, socket_set_total_size_,
                     client_socket_vec_, fd_count, backlog, sent, left, errors>>
      /\ service = "recv" /\ service' = "visit" /\ index' = index + 1
      /\ current' = NoHandle
      /\ inuse_buffer_cache_' = inuse_buffer_cache_ - 1 /\ UNCHANGED buffer_cache_
  BY DEF Recv, ReleaseSelectBuffer
<1>. DEFINE c == ClientOf(current)
<1>2. /\ c \in Accepted /\ c \in Clients /\ handle[c] = current
      /\ UNCHANGED <<handle, dropped>>
      /\ \/ /\ UNCHANGED closed_client_need_clean_
            /\ \E n \in 1..(sent[c] - taken[c]) : taken' = [taken EXCEPT ![c] = @ + n]
            /\ left[c] # "reset"
            /\ discarded' \in {discarded, discarded \cup {c}}
         \/ /\ UNCHANGED <<taken, discarded>>
            /\ closed_client_need_clean_' \in
                   {closed_client_need_clean_, closed_client_need_clean_ \cup {current}}
            /\ left[c] = "reset" \/ (left[c] = "closed" /\ taken[c] = sent[c])
  BY RecvEffect
<1>. HIDE DEF c
<1>3. /\ sent \in [Clients -> 0..MaxChunks] /\ taken \in [Clients -> 0..MaxChunks]
      /\ \A d \in Clients : taken[d] <= sent[d]
  BY DEF TypeOK, CleanInv
<1>4. /\ taken' \in [Clients -> 0..MaxChunks]
      /\ \A d \in Clients : taken'[d] <= sent[d]
      /\ \A d \in Clients \ {c} : taken'[d] = taken[d]
      /\ \A d \in Clients : taken[d] = sent[d] => taken'[d] = sent[d]
  <2>1. CASE UNCHANGED taken
    BY <1>3, <2>1
  <2>2. ASSUME NEW n \in 1..(sent[c] - taken[c]), taken' = [taken EXCEPT ![c] = @ + n]
        PROVE  <1>4!:
    <3>1. /\ sent[c] \in 0..MaxChunks /\ taken[c] \in 0..MaxChunks
          /\ n \in Nat /\ n >= 1 /\ n <= sent[c] - taken[c]
      BY <1>2, <1>3
    <3>2. taken[c] + n \in 0..MaxChunks /\ taken[c] + n <= sent[c] /\ taken[c] # sent[c]
      BY <3>1
    <3>3. taken' \in [Clients -> 0..MaxChunks]
      BY <1>3, <2>2, <3>2
    <3>4. taken'[c] = taken[c] + n /\ \A d \in Clients \ {c} : taken'[d] = taken[d]
      BY <1>2, <1>3, <2>2
    <3>. QED  BY <1>2, <1>3, <3>2, <3>3, <3>4
  <2>. QED  BY <1>2, <2>1, <2>2
<1>5. /\ current \in Handles
      /\ closed_client_need_clean_' \subseteq closed_client_need_clean_ \cup {current}
      /\ discarded' \subseteq Clients
      /\ inuse_buffer_cache_' = 0
  <2>1. current \in Handles
    BY <1>2 DEF TypeOK, Accepted
  <2>2. inuse_buffer_cache_ = 1
    BY <1>1 DEF BufferInv
  <2>. QED  BY <1>1, <1>2, <2>1, <2>2 DEF TypeOK
<1>6. TypeOK'
  BY <1>1, <1>2, <1>4, <1>5 DEF TypeOK, ServiceStates, mainVars
<1>7. Accepted' = Accepted /\ ClientSockets' = ClientSockets
  BY <1>2 DEF Accepted, ClientSockets
<1>8. HandlesInv' /\ BacklogInv'
  BY <1>1, <1>2, <1>7 DEF HandlesInv, BacklogInv, mainVars
<1>9. CleanInv'
  <2>1. closed_client_need_clean_' \subseteq ClientSockets
    BY <1>2, <1>5 DEF CleanInv, ClientSockets
  <2>2. ASSUME NEW d \in Accepted, handle[d] \in closed_client_need_clean_'
        PROVE  left[d] = "reset" \/ (left[d] = "closed" /\ taken'[d] = sent[d])
    <3>1. d \in Clients
      BY DEF Accepted
    <3>2. handle[d] = current => d = c
      BY <1>2 DEF HandlesInv
    <3>3. CASE handle[d] \in closed_client_need_clean_
      BY <1>4, <3>1, <3>3 DEF CleanInv
    <3>4. CASE handle[d] \notin closed_client_need_clean_
      BY <1>2, <2>2, <3>2, <3>4
    <3>. QED  BY <3>3, <3>4
  <2>. QED  BY <1>1, <1>2, <1>4, <1>7, <2>1, <2>2 DEF CleanInv
<1>10. MainInv' /\ VecInv' /\ SetInv'
  BY <1>1, <1>7 DEF MainInv, VecInv, SetInv, Ready, Distinct, Elements, mainVars
<1>11. ReadyInv' /\ CurrentInv'
  <2>1. ASSUME NEW x \in Behind PROVE Readable(x)'
    <3>1. x # current /\ Readable(x)
      BY <1>1, BehindCurrent
    <3>2. CASE x = Listen
      BY <1>1, <3>1, <3>2 DEF Readable
    <3>3. CASE x # Listen
      <4>1. PICK d \in Clients : handle[d] = x /\ (UnreadData(d) \/ left[d] # "no")
        BY <3>1, <3>3 DEF Readable
      <4>2. d \in Clients \ {c}
        BY <1>2, <3>1, <4>1
      <4>. QED  BY <1>1, <1>2, <1>4, <3>3, <4>1, <4>2 DEF Readable, UnreadData
    <3>. QED  BY <3>2, <3>3
  <2>. QED  BY <1>1, <1>7, <2>1, NextEntry
<1>12. SizeInv' /\ BufferInv'
  BY <1>1, <1>5 DEF SizeInv, BufferInv, FdSetFits, mainVars
<1>. QED  BY <1>6, <1>8, <1>9, <1>10, <1>11, <1>12

\* The new set holds what the vector held and is not to be closed.
LEMMA KeptEntries ==
    ASSUME SelectIInv, Ready
    PROVE  /\ KeptSockets \in Seq(SocketValues)
           /\ Elements(KeptSockets) = Elements(client_socket_vec_) \ closed_client_need_clean_
           /\ Distinct(KeptSockets)
           /\ Len(KeptSockets) = SizeOfNewSet
<1>. DEFINE vec == client_socket_vec_
            closed == closed_client_need_clean_
            kept == Elements(vec) \ closed
<1>1. vec \in Seq(SocketValues) /\ Len(vec) \in Nat
  BY DEF SelectIInv, TypeOK, SocketValues
<1>2. /\ KeptSockets \in Seq(SocketValues)
      /\ Len(KeptSockets) = Cardinality(Places(vec, kept))
      /\ \A n \in 1..Len(KeptSockets) :
            /\ Place(vec, kept, n) \in Places(vec, kept)
            /\ KeptSockets[n] = vec[Place(vec, kept, n)]
      /\ \A m, n \in 1..Len(KeptSockets) :
            Place(vec, kept, m) = Place(vec, kept, n) => m = n
      /\ Elements(KeptSockets) = Elements(vec) \cap kept
  <2>1. KeptSockets = Selected(vec, kept)
    BY DEF KeptSockets
  <2>. HIDE DEF vec, closed, kept
  <2>. QED  BY <1>1, <2>1, SelectedEntries
<1>3. Distinct(KeptSockets)
  <2>1. Distinct(vec)
    BY DEF SelectIInv, VecInv
  <2>. QED  BY <1>2, <2>1 DEF Distinct, Places
<1>4. Len(KeptSockets) = SizeOfNewSet
  <2>1. /\ IsFiniteSet(1..Len(vec)) /\ Cardinality(1..Len(vec)) = Len(vec)
    BY <1>1, FS_Interval
  <2>2. Places(vec, kept) = (1..Len(vec)) \ Places(vec, closed)
    BY DEF Places, Elements
  <2>3. Places(vec, closed) \subseteq 1..Len(vec) /\ IsFiniteSet(Places(vec, closed))
    BY <1>1, PlacesFinite
  <2>4. Cardinality(Places(vec, kept)) = Len(vec) - Cardinality(Places(vec, closed))
    <3>1. (1..Len(vec)) \cap Places(vec, closed) = Places(vec, closed)
      BY <2>3
    <3>2. Cardinality((1..Len(vec)) \ Places(vec, closed))
            = Cardinality(1..Len(vec)) - Cardinality((1..Len(vec)) \cap Places(vec, closed))
      BY <2>1, FS_Difference
    <3>. QED  BY <2>1, <2>2, <3>1, <3>2
  <2>. QED  BY <1>2, <2>4, ClosedAreListed DEF SizeOfNewSet
<1>. QED  BY <1>2, <1>3, <1>4

\* The clients whose sockets RefreshFDSet_ is about to close.
Leaving == {c \in Accepted : handle[c] \in closed_client_need_clean_}

\* RefreshFDSet_ closes sockets of clients that are done and keeps the rest.
LEMMA CopySocketsInv ==
    ASSUME SelectIInv, CopySockets
    PROVE  /\ SelectIInv'
           /\ Accepted' = Accepted \ Leaving
<1>. USE SelectHandles DEF SelectIInv
<1>1. /\ UNCHANGED <<mainVars, socket_set_total_size_, fd_count, index, current,
                     bufferVars, backlog, sent, taken, left, discarded, errors>>
      /\ service = "copy" /\ service' \in {"test", "crashed"}
      /\ fd_array' = KeptSockets /\ client_socket_vec_' = KeptSockets
      /\ handle' = [c \in Clients |-> IF c \in Leaving THEN NoHandle ELSE handle[c]]
      /\ dropped' = dropped \cup Leaving
      /\ closed_client_need_clean_' = {}
  BY DEF CopySockets, Leaving
<1>2. Ready /\ Ready'
  BY <1>1 DEF Ready
<1>3. /\ KeptSockets \in Seq(SocketValues)
      /\ Elements(KeptSockets) = Elements(client_socket_vec_) \ closed_client_need_clean_
      /\ Distinct(KeptSockets)
      /\ Len(KeptSockets) = SizeOfNewSet
  BY <1>2, KeptEntries
<1>4. /\ Accepted' = Accepted \ Leaving
      /\ \A c \in Accepted' : c \in Accepted /\ handle'[c] = handle[c]
      /\ handle' \in [Clients -> Handles \cup {NoHandle}]
      /\ Leaving \subseteq Clients
  <2>1. Leaving \subseteq Clients
    BY DEF Leaving, Accepted
  <2>2. handle' \in [Clients -> Handles \cup {NoHandle}]
    BY <1>1 DEF TypeOK
  <2>3. \A c \in Clients : handle'[c] = IF c \in Leaving THEN NoHandle ELSE handle[c]
    BY <1>1
  <2>4. Accepted' = {c \in Clients : handle'[c] # NoHandle}
    BY DEF Accepted
  <2>. QED  BY <2>1, <2>2, <2>3, <2>4 DEF Accepted
<1>5. ClientSockets' = ClientSockets \ closed_client_need_clean_
  <2>1. ClientSockets' = {handle[c] : c \in Accepted \ Leaving}
    BY <1>4 DEF ClientSockets
  <2>. QED  BY <2>1 DEF ClientSockets, Leaving
<1>6. TypeOK'
  BY <1>1, <1>3, <1>4 DEF TypeOK, ServiceStates, SocketValues, mainVars, bufferVars
<1>7. HandlesInv'
  BY <1>1, <1>4, <1>5 DEF HandlesInv, mainVars
<1>8. BacklogInv'
  <2>1. Leaving \subseteq Accepted
    BY DEF Leaving
  <2>. QED  BY <1>1, <1>4, <2>1 DEF BacklogInv
<1>9. CleanInv'
  BY <1>1, <1>4 DEF CleanInv
<1>10. MainInv' /\ SetInv'
  BY <1>1 DEF MainInv, SetInv, mainVars
<1>11. VecInv'
  <2>1. Elements(client_socket_vec_) \ {Invalid, udp_sock} = {Listen} \cup ClientSockets
    BY <1>2 DEF VecInv
  <2>2. closed_client_need_clean_ \subseteq ClientSockets /\ Listen \notin closed_client_need_clean_
    BY DEF CleanInv, TypeOK
  <2>3. Elements(KeptSockets) \ {Invalid, udp_sock} = {Listen} \cup ClientSockets'
    BY <1>3, <1>5, <2>1, <2>2
  <2>. QED  BY <1>1, <1>2, <1>3, <2>3 DEF VecInv, mainVars
<1>12. LoopInv'
  <2>1. ReadyInv' /\ CurrentInv' /\ BufferInv'
    BY <1>1 DEF ReadyInv, CurrentInv, BufferInv, bufferVars
  <2>2. SizeInv'
    BY <1>1, <1>3 DEF SizeInv, FdSetFits, mainVars, TypeOK
  <2>. QED  BY <2>1, <2>2 DEF LoopInv
<1>. QED  BY <1>4, <1>6, <1>7, <1>8, <1>9, <1>10, <1>11, <1>12 DEF LoopInv

-----------------------------------------------------------------------------
(* The theorems.                                                            *)

\* Every step of the main thread, of the service thread and of a client
\* preserves the invariant.
LEMMA SelectStepInv ==
    ASSUME SelectIInv, [Next]_vars
    PROVE  SelectIInv'
<1>1. CASE MainStep \/ StopService
  BY <1>1, QuietMainInv, InitializeInv, WakeupInv, JoinInv DEF MainStep
<1>2. CASE ServiceStep
  BY <1>2, QuietServiceInv, SelectInv, VisitInv, AcceptInv, RecvInv, EndVisitsInv,
     GrowSetInv, CopySocketsInv DEF ServiceStep
<1>3. CASE ClientStep
  BY <1>3, ConnectInv, TalkInv DEF ClientStep
<1>4. CASE UNCHANGED vars
  <2>1. /\ UNCHANGED <<main, end_thread_, udp_sock, service, fd_array, socket_set_total_size_,
                       client_socket_vec_, closed_client_need_clean_, fd_count, index,
                       current, buffer_cache_, inuse_buffer_cache_, errors, discarded>>
        /\ UNCHANGED <<handle, dropped, sent, taken, left, backlog>>
    BY <1>4 DEF vars, mainVars, loopVars, bufferVars, clientVars
  <2>2. ClientInv' /\ Accepted' = Accepted /\ ClientSockets' = ClientSockets
        /\ \A s : Readable(s)' <=> Readable(s)
    BY <2>1, ClientFrame DEF SelectIInv, ClientInv
  <2>3. TypeOK' /\ MainInv' /\ VecInv' /\ SetInv'
    BY <2>1, <2>2 DEF SelectIInv, TypeOK, MainInv, VecInv, SetInv, Ready, Distinct, Elements
  <2>4. LoopInv'
    BY <2>1, <2>2 DEF SelectIInv, LoopInv, ReadyInv, CurrentInv, SizeInv, BufferInv,
                      FdSetFits, SizeOfNewSet
  <2>. QED  BY <2>2, <2>3, <2>4 DEF SelectIInv, ClientInv, LoopInv
<1>. QED  BY <1>1, <1>2, <1>3, <1>4 DEF Next

\* The invariant holds throughout every behaviour of the select server.
LEMMA SelectInvariance == Spec => []SelectIInv
<1>1. Init => SelectIInv
  BY SelectInitInv
<1>2. SelectIInv /\ [Next]_vars => SelectIInv'
  BY SelectStepInv
<1>. QED  BY <1>1, <1>2, PTL DEF Spec

\* The variables of the select server, its array and its vector stay within
\* their types, the buffers in the cache never below zero.
THEOREM SelectTyping == Spec => []TypeOK
<1>1. SelectIInv => TypeOK
  BY DEF SelectIInv
<1>. QED  BY <1>1, SelectInvariance, PTL

\* select waits for the listen socket and every open connection, each listed
\* once, and for nothing that RefreshFDSet_ has closed.
THEOREM SelectWatchesOpenSockets == Spec => []WatchesOpenSockets
<1>1. SelectIInv => WatchesOpenSockets
  BY SetMatchesVec DEF WatchesOpenSockets, Distinct, ClientSockets
<1>. QED  BY <1>1, SelectInvariance, PTL

\* RefreshFDSet_ writes past the set it allocated only when
\* WakeupSelectThread_ added its socket in between, and then by one entry.
THEOREM SetAsLargeAsNeeded == Spec => []FdSetFits
<1>1. SelectIInv => FdSetFits
  BY DEF SelectIInv, SizeInv
<1>. QED  BY <1>1, SelectInvariance, PTL

\* recv is called on, and DelEvent_ marks, sockets of accepted clients only.
THEOREM ClosedSocketsUnused == Spec => []NoUseOfClosedSocket
<1>1. SelectIInv => NoUseOfClosedSocket
  BY DEF SelectIInv, NoUseOfClosedSocket, CurrentInv, CleanInv, ClientSockets
<1>. QED  BY <1>1, SelectInvariance, PTL

\* The loop over the ready sockets blocks in accept or recv only at the entry
\* one behind the last that select reported.
THEOREM BlocksOnlyBehindReady == Spec => []WaitsOnlyBehindReady
<1>1. ASSUME SelectIInv, Waiting PROVE index = fd_count
  <2>1. index \in Nat /\ fd_count \in Nat /\ index <= fd_count
    BY <1>1 DEF SelectIInv, TypeOK, CurrentInv, Waiting
  <2>2. ASSUME index < fd_count PROVE FALSE
    <3>1. index + 1 \in index + 1 .. fd_count
      BY <2>1, <2>2
    <3>2. Readable(fd_array[index + 1])
      BY <1>1, <3>1 DEF SelectIInv, ReadyInv, Waiting
    <3>. QED  BY <1>1, <2>2, <3>2 DEF SelectIInv, CurrentInv, Waiting
  <2>. QED  BY <2>1, <2>2
<1>2. SelectIInv => WaitsOnlyBehindReady
  BY <1>1 DEF WaitsOnlyBehindReady
<1>. QED  BY <1>2, SelectInvariance, PTL

-----------------------------------------------------------------------------
(* The select server implements ConnectionService.                          *)

\* What ConnectionService sees of the select server.
LEMMA ServiceVars ==
    ASSUME UNCHANGED <<sent, taken, left, dropped, handle, end_thread_, discarded>>
    PROVE  UNCHANGED Service!vars
BY DEF Service!vars, Accepted

\* The steps that ConnectionService has a name for: the end of the service,
\* by whoever notices it.
LEMMA EndRefines ==
    ASSUME UNCHANGED <<sent, taken, left, dropped, handle, discarded>>,
           end_thread_' \in {end_thread_, TRUE}
    PROVE  Service!End \/ UNCHANGED Service!vars
BY DEF Service!End, Service!vars, Accepted

\* An accept that returns a socket serves one more client; one that fails
\* changes nothing a client is promised.
LEMMA AcceptRefines ==
    ASSUME SelectIInv, Accept
    PROVE  (\E c \in Clients : Service!Accept(c)) \/ UNCHANGED Service!vars
<1>1. UNCHANGED <<sent, taken, left, dropped, end_thread_, discarded>>
  BY DEF Accept, mainVars
<1>2. ASSUME NEW s \in FreshHandles,
             handle' = [handle EXCEPT ![Head(backlog)] = s],
             client_socket_vec_' = Append(client_socket_vec_, s),
             backlog' = Tail(backlog)
      PROVE  \E c \in Clients : Service!Accept(c)
  <2>. DEFINE c == Head(backlog)
  <2>1. c \in Clients /\ c \notin Accepted \cup dropped /\ Accepted' = Accepted \cup {c}
    BY <1>2, AcceptSucceedsInv
  <2>. QED  BY <1>1, <2>1 DEF Service!Accept
<1>3. CASE UNCHANGED handle
  BY <1>1, <1>3, ServiceVars
<1>. QED  BY <1>2, <1>3 DEF Accept

\* recv takes data that was sent and has not been taken, and throws it away
\* only when the service is ending.
LEMMA RecvRefines ==
    ASSUME SelectIInv, Recv
    PROVE  \/ \E c \in Clients : \E n \in 1..MaxChunks : Service!Take(c, n)
           \/ UNCHANGED Service!vars
<1>. DEFINE c == ClientOf(current)
<1>1. UNCHANGED <<sent, left, end_thread_>>
  BY DEF Recv, mainVars
<1>2. /\ c \in Accepted /\ c \in Clients /\ handle[c] = current
      /\ UNCHANGED <<handle, dropped>>
      /\ \/ /\ UNCHANGED closed_client_need_clean_
            /\ \E n \in 1..(sent[c] - taken[c]) : taken' = [taken EXCEPT ![c] = @ + n]
            /\ left[c] # "reset"
            /\ discarded' \in {discarded, discarded \cup {c}}
            /\ discarded' # discarded => end_thread_
         \/ /\ UNCHANGED <<taken, discarded>>
            /\ closed_client_need_clean_' \in
                   {closed_client_need_clean_, closed_client_need_clean_ \cup {current}}
            /\ left[c] = "reset" \/ (left[c] = "closed" /\ taken[c] = sent[c])
  BY RecvEffect
<1>. HIDE DEF c
<1>3. CASE UNCHANGED <<taken, discarded>>
  BY <1>1, <1>2, <1>3, ServiceVars
<1>4. ASSUME NEW n \in 1..(sent[c] - taken[c]),
             taken' = [taken EXCEPT ![c] = @ + n],
             discarded' \in {discarded, discarded \cup {c}},
             discarded' # discarded => end_thread_
      PROVE  n \in 1..MaxChunks /\ Service!Take(c, n)
  <2>1. sent[c] \in 0..MaxChunks /\ taken[c] \in 0..MaxChunks
    BY <1>2 DEF SelectIInv, TypeOK
  <2>2. n \in 1..MaxChunks /\ n <= sent[c] - taken[c]
    BY <2>1, SelectSizes
  <2>3. Accepted' = Accepted
    BY <1>2 DEF Accepted
  <2>4. discarded' \in {discarded} \cup (IF end_thread_ THEN {discarded \cup {c}} ELSE {})
    BY <1>4
  <2>. QED  BY <1>1, <1>2, <1>4, <2>2, <2>3, <2>4 DEF Service!Take
<1>. QED  BY <1>2, <1>3, <1>4

\* RefreshFDSet_ drops clients that have left and are owed nothing.
LEMMA CopySocketsRefines ==
    ASSUME SelectIInv, CopySockets
    PROVE  \/ \E S \in SUBSET Clients : S # {} /\ Service!Drop(S)
           \/ UNCHANGED Service!vars
<1>1. /\ UNCHANGED <<sent, taken, left, end_thread_, discarded>>
      /\ dropped' = dropped \cup Leaving
  BY DEF CopySockets, mainVars, Leaving
<1>2. Accepted' = Accepted \ Leaving
  BY CopySocketsInv
<1>3. Leaving \subseteq Accepted /\ Leaving \in SUBSET Clients
  BY DEF Leaving, Accepted
<1>4. \A c \in Leaving : left[c] = "reset" \/ (left[c] = "closed" /\ taken[c] = sent[c])
  BY DEF Leaving, SelectIInv, CleanInv
<1>5. CASE Leaving = {}
  BY <1>1, <1>2, <1>5 DEF Service!vars
<1>6. CASE Leaving # {}
  BY <1>1, <1>2, <1>3, <1>4, <1>6 DEF Service!Drop
<1>. QED  BY <1>5, <1>6

\* Every step of the select server is a step of ConnectionService or changes
\* nothing of it.
LEMMA SelectStepRefines ==
    ASSUME SelectIInv, [Next]_vars
    PROVE  [Service!Next]_(Service!vars)
<1>1. CASE MainStep
  BY <1>1, ServiceVars DEF MainStep, InitializeFails, Initialize, StartGTService,
     WakeupSelectThread, JoinServiceThread, clientVars
<1>2. CASE StopService \/ TestEndThread
  <2>1. /\ UNCHANGED <<sent, taken, left, dropped, handle, discarded>>
        /\ end_thread_' \in {end_thread_, TRUE}
    BY <1>2 DEF StopService, TestEndThread, clientVars, SelectIInv, TypeOK
  <2>. QED  BY <2>1, EndRefines DEF Service!Next
<1>3. CASE SelectFails \/ Select \/ Visit \/ EndVisits \/ GrowSet
  BY <1>3, ServiceVars DEF SelectFails, Select, Visit, EndVisits, GrowSet, clientVars,
     mainVars
<1>4. CASE Accept
  BY <1>4, AcceptRefines DEF Service!Next
<1>5. CASE Recv
  BY <1>5, RecvRefines DEF Service!Next
<1>6. CASE CopySockets
  BY <1>6, CopySocketsRefines DEF Service!Next
<1>7. ASSUME NEW c \in Clients, Connect(c) \/ Send(c) \/ Leave(c)
      PROVE  [Service!Next]_(Service!vars)
  <2>1. CASE Connect(c)
    BY <2>1, ServiceVars DEF Connect, mainVars
  <2>2. CASE Send(c)
    BY <2>2 DEF Send, Accepted, mainVars, Service!Send, Service!Next
  <2>3. CASE Leave(c)
    <3>1. Service!Leave(c, "closed") \/ Service!Leave(c, "reset")
      BY <2>3 DEF Leave, Accepted, mainVars, Service!Leave
    <3>. QED  BY <3>1 DEF Service!Next
  <2>. QED  BY <1>7, <2>1, <2>2, <2>3
<1>8. CASE UNCHANGED vars
  BY <1>8, ServiceVars DEF vars, mainVars, clientVars
<1>. QED  BY <1>1, <1>2, <1>3, <1>4, <1>5, <1>6, <1>7, <1>8
          DEF Next, ServiceStep, ClientStep

\* The select server implements ConnectionService: whatever the order in which
\* select, accept, recv and RefreshFDSet_ meet the clients, a connection is
\* dropped only when its client has left and an orderly client's data has all
\* been received, and nothing received is thrown away before the service ends.
THEOREM SelectImplementsService == Spec => ImplementsConnectionService
<1>1. Init => Service!Init
  BY DEF Init, Accepted, Service!Init
<1>2. SelectIInv /\ [Next]_vars => [Service!Next]_(Service!vars)
  BY SelectStepRefines
<1>. QED  BY <1>1, <1>2, SelectInvariance, PTL DEF Spec, ImplementsConnectionService, Service!Spec

=============================================================================
