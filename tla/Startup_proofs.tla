---------------------------- MODULE Startup_proofs ----------------------------
(***************************************************************************)
(* Proofs about Startup: the links in /dev/extcomm, for any number of      *)
(* boards and UARTs, any hardware and command line, whatever an update     *)
(* leaves of a board, and any number of failed steps.                      *)
(***************************************************************************)
EXTENDS Startup, TLAPS

\* A UART that has a pty has its own number below pts, and both links lead there.
Linked(w) ==
  /\ Pty(w) \in 0..(pts - 1)
  /\ link[w] = Pty(w)
  /\ \E n \in 1..Len(link0) : link0[n] = Pty(w)

\* Where in the loops over boards and UARTs the pty of w has been opened.
Passed(w) ==
  \/ w[1] < ai /\ pc \in {"epoll", "uarts"}
  \/ w[1] = ai /\ w[2] < pi /\ pc = "uarts"
  \/ pc = "loop"

\* A handle has a number for every UART.
Handle(h) == h.ptys = [u \in Uart |-> h.ptys[u]]

\* Ptys are opened one after the other, and extcomm_counter counts the links.
LinkInv ==
  /\ pc \in {"arms", "firmware", "epoll", "uarts", "loop"} /\ ai \in 0..MAX_ARMS /\ pi \in Nat
  /\ pc \in {"firmware", "uarts"} => ai \in Found
  /\ arm = [a \in Arm |-> arm[a]] /\ link = [w \in Arm \X Uart |-> link[w]]
  /\ pts \in Nat /\ link0 \in Seq(Nat) /\ extcomm_counter = Len(link0)
  /\ \A a \in Found : Handle(arm[a])
  /\ \A w \in Open : Passed(w) /\ Linked(w)
  /\ \A v, w \in Open : v # w => Pty(v) # Pty(w)

LEMMA InitLinks == Init => LinkInv
<1>. SUFFICES ASSUME Init PROVE LinkInv
  OBVIOUS
<1>1. /\ pc = "arms" /\ ai = 0 /\ pi = 0 /\ arm = [a \in Arm |-> NoArm] /\ pts = 0
      /\ link0 = <<>> /\ extcomm_counter = 0 /\ link = [w \in Arm \X Uart |-> link[w]]
  BY DEF Init
<1>2. Found = {} /\ Open = {}
  BY <1>1 DEF Found, Open
<1>3. link0 \in Seq(Nat) /\ extcomm_counter = Len(link0)
  BY <1>1
<1>4. 0 \in 0..MAX_ARMS
  BY StartupAssumption
<1>. QED  BY <1>1, <1>2, <1>3, <1>4 DEF LinkInv

\* A step that opens no pty.
LEMMA LinksKept ==
  ASSUME LinkInv, UNCHANGED <<arm, names>>, pc' \in {"epoll", "uarts", "loop"},
         ai' \in 0..MAX_ARMS, pi' \in Nat, pc' = "uarts" => ai' \in Found,
         pc \in {"epoll", "uarts", "loop"} => \A w \in Open : Passed(w) => Passed(w)'
  PROVE  LinkInv'
<1>1. UNCHANGED <<arm, link, link0, pts, extcomm_counter>>
  BY DEF names
<1>2. Found' = Found /\ Open' = Open /\ \A w \in Open : Pty(w)' = Pty(w)
  BY <1>1 DEF Found, Open, Pty
<1>3. \A w \in Open : Linked(w)' <=> Linked(w)
  BY <1>1, <1>2 DEF Linked
<1>4. \A w \in Open : Passed(w)' /\ Linked(w)'
  BY <1>3 DEF LinkInv, Passed
<1>5. \A a \in Found : Handle(arm[a])'
  BY <1>1 DEF LinkInv, Handle
<1>6. \A v, w \in Open : v # w => Pty(v)' # Pty(w)'
  BY <1>2 DEF LinkInv
<1>7. /\ arm' = [a \in Arm |-> arm'[a]] /\ link' = [w \in Arm \X Uart |-> link'[w]]
      /\ pts' \in Nat /\ link0' \in Seq(Nat) /\ extcomm_counter' = Len(link0')
  BY <1>1 DEF LinkInv
<1>8. \A a \in Found' : Handle(arm[a])'
  BY <1>2, <1>5
<1>9. \A w \in Open' : Passed(w)' /\ Linked(w)'
  BY <1>2, <1>4
<1>10. \A v, w \in Open' : v # w => Pty(v)' # Pty(w)'
  BY <1>2, <1>6
<1>. QED  BY <1>2, <1>7, <1>8, <1>9, <1>10 DEF LinkInv

\* While the boards are looked for there is no pty.
LEMMA NoPtys ==
  ASSUME LinkInv, pc \in {"arms", "firmware"}
  PROVE  Open = {} /\ \A a \in Found, u \in Uart : arm[a].ptys[u] = NoLink
<1>1. Open = {}
  BY DEF LinkInv, Passed
<1>2. ASSUME NEW a \in Found, NEW u \in Uart PROVE arm[a].ptys[u] = NoLink
  <2>1. <<a, u>> \in Found \X Uart
    OBVIOUS
  <2>. QED  BY <1>1, <2>1 DEF Open
<1>. QED  BY <1>1, <1>2

\* A step that makes or changes handles that have none.
LEMMA HandlesKept ==
  ASSUME LinkInv, pc \in {"arms", "firmware"}, pc' \in {"arms", "firmware"},
         UNCHANGED names, ai' \in 0..MAX_ARMS, pi' = pi, pc' = "firmware" => ai' \in Found',
         arm' = [a \in Arm |-> arm'[a]],
         \A a \in Found' : Handle(arm'[a]) /\ \A u \in Uart : arm'[a].ptys[u] = NoLink
  PROVE  LinkInv'
<1>1. Open' = {}
  <2>. SUFFICES ASSUME NEW a \in Found', NEW u \in Uart
                PROVE  arm'[a].ptys[u] = NoLink
    BY DEF Open
  <2>. QED  OBVIOUS
<1>2. UNCHANGED <<link, link0, pts, extcomm_counter>>
  BY DEF names
<1>3. \A a \in Found' : Handle(arm[a])'
  BY DEF Handle
<1>. QED  BY <1>1, <1>2, <1>3 DEF LinkInv

\* add_arm makes handles without a pty.
LEMMA AddLinks == LinkInv /\ AddArm => LinkInv'
<1>. SUFFICES ASSUME LinkInv, AddArm PROVE LinkInv'
  OBVIOUS
<1>1. /\ pc = "arms" /\ ai \in Arm /\ pc' \in {"arms", "firmware"} /\ ai' \in 0..MAX_ARMS
      /\ UNCHANGED names /\ pi' = pi /\ (pc' = "firmware" => ai' = ai /\ arm'[ai] # NoArm)
  BY StartupAssumption DEF LinkInv, AddArm, Arm
<1>2. PICK opens, first, second, gpio \in BOOLEAN :
        arm' = [arm EXCEPT ![ai] =
                  IF cmd.devices[ai + 1] /\ opens
                    THEN arm_init(ai, first /\ hw[ai] # <<>>, second /\ hw[ai] # <<>>, gpio)
                    ELSE NoArm]
  BY DEF AddArm
<1>3. /\ arm' = [a \in Arm |-> arm'[a]] /\ \A a \in Arm : a # ai => arm'[a] = arm[a]
      /\ arm'[ai] # NoArm => arm'[ai].ptys = [u \in Uart |-> NoLink]
  <2>1. arm'[ai] = IF cmd.devices[ai + 1] /\ opens
                     THEN arm_init(ai, first /\ hw[ai] # <<>>, second /\ hw[ai] # <<>>, gpio)
                     ELSE NoArm
    BY <1>1, <1>2 DEF LinkInv
  <2>2. arm'[ai] # NoArm => arm'[ai].ptys = [u \in Uart |-> NoLink]
    BY <2>1 DEF arm_init
  <2>. QED  BY <1>1, <1>2, <2>2 DEF LinkInv
<1>4. \A a \in Found' : Handle(arm'[a]) /\ \A u \in Uart : arm'[a].ptys[u] = NoLink
  <2>. SUFFICES ASSUME NEW a \in Arm, arm'[a] # NoArm
                PROVE  Handle(arm'[a]) /\ \A u \in Uart : arm'[a].ptys[u] = NoLink
    BY DEF Found
  <2>1. CASE a = ai
    BY <1>3, <2>1 DEF Handle
  <2>2. CASE a # ai
    <3>1. a \in Found /\ arm'[a] = arm[a]
      BY <1>3, <2>2 DEF Found
    <3>. QED  BY <1>1, <3>1, NoPtys DEF LinkInv
  <2>. QED  BY <2>1, <2>2
<1>5. pc' = "firmware" => ai' \in Found'
  BY <1>1 DEF Found
<1>. QED  BY <1>1, <1>3, <1>4, <1>5, HandlesKept

\* So does an update, whatever it leaves of the board.
LEMMA FirmwareLinks == LinkInv /\ CheckFirmware => LinkInv'
<1>. SUFFICES ASSUME LinkInv, CheckFirmware PROVE LinkInv'
  OBVIOUS
<1>1. /\ pc = "firmware" /\ ai \in Found /\ ai \in Arm /\ pc' = "arms" /\ ai' \in 0..MAX_ARMS
      /\ UNCHANGED names /\ pi' = pi
  BY StartupAssumption DEF LinkInv, CheckFirmware, Arm, Found
<1>2. arm' = arm \/ \E bv : arm' = [arm EXCEPT ![ai] = Reloaded(@, bv)]
  BY DEF CheckFirmware
<1>3. /\ arm' = [a \in Arm |-> arm'[a]]
      /\ \A a \in Found' : a \in Found /\ arm'[a].ptys = arm[a].ptys
  <2>1. CASE arm' = arm
    BY <2>1 DEF LinkInv, Found
  <2>2. ASSUME NEW bv, arm' = [arm EXCEPT ![ai] = Reloaded(@, bv)]
        PROVE  /\ arm' = [a \in Arm |-> arm'[a]]
               /\ \A a \in Found' : a \in Found /\ arm'[a].ptys = arm[a].ptys
    <3>1. arm' = [a \in Arm |-> arm'[a]] /\ arm'[ai].ptys = arm[ai].ptys
      BY <1>1, <2>2 DEF LinkInv, Reloaded
    <3>2. \A a \in Arm : a # ai => arm'[a] = arm[a]
      BY <2>2 DEF LinkInv
    <3>. QED  BY <1>1, <3>1, <3>2 DEF Found
  <2>. QED  BY <1>2, <2>1, <2>2
<1>4. \A a \in Found' : Handle(arm'[a]) /\ \A u \in Uart : arm'[a].ptys[u] = NoLink
  BY <1>1, <1>3, NoPtys DEF LinkInv, Handle
<1>. QED  BY <1>1, <1>3, <1>4, HandlesKept

\* armpty_open, wherever it ends: only a UART whose both links were made has a pty.
LEMMA OpenLinks ==
  ASSUME LinkInv, NEW end \in PtySteps, armpty_open(ai, pi, end), pc = "uarts", pc' = pc,
         pi \in Uart, pi' = pi + 1, ai' = ai
  PROVE  LinkInv'
<1>. PICK it : it = <<ai, pi>>
  OBVIOUS
<1>. PICK to : to = IF end = "well" THEN pts ELSE NoLink
  OBVIOUS
<1>1. /\ ai \in Found /\ ai \in Arm /\ it \in Arm \X Uart /\ pts \in Nat /\ pi \in Nat
      /\ it[1] = ai /\ it[2] = pi
  BY DEF LinkInv, Found
<1>2. it \notin Open
  <2>1. ~Passed(it)
    BY <1>1 DEF Passed, Arm
  <2>. QED  BY <2>1 DEF LinkInv
<1>3. /\ pts' = IF end = "nopty" THEN pts ELSE pts + 1
      /\ arm' = [arm EXCEPT ![ai] = WithPty(@, pi, to)]
      /\ link' = CASE end \in {"behind", "well"} -> Relink(it, pts)
                   [] end = "unlinked" -> [link EXCEPT ![it] = NoLink]
                   [] OTHER -> link
  BY DEF armpty_open
<1>4. /\ arm' = [a \in Arm |-> arm'[a]] /\ \A a \in Arm : a # ai => arm'[a] = arm[a]
      /\ arm'[ai] = WithPty(arm[ai], pi, to)
  BY <1>1, <1>3 DEF LinkInv
<1>5. /\ arm'[ai].ptys = [arm[ai].ptys EXCEPT ![pi] = to] /\ arm'[ai] # NoArm
      /\ arm[ai].ptys = [u \in Uart |-> arm[ai].ptys[u]]
  <2>1. arm'[ai].ptys = [arm[ai].ptys EXCEPT ![pi] = to]
    BY <1>4 DEF WithPty
  <2>2. DOMAIN arm'[ai] = {"bv", "speed", "ptys", "fdint"}
    BY <1>4 DEF WithPty
  <2>3. DOMAIN NoArm = {}
    BY DEF NoArm
  <2>4. Handle(arm[ai])
    BY <1>1 DEF LinkInv
  <2>. QED  BY <2>1, <2>2, <2>3, <2>4 DEF Handle
<1>6. /\ Handle(arm'[ai]) /\ arm'[ai].ptys[pi] = to
      /\ \A u \in Uart : u # pi => arm'[ai].ptys[u] = arm[ai].ptys[u]
  BY <1>5 DEF Handle
<1>7. Found' = Found /\ \A a \in Found' : Handle(arm'[a])
  <2>1. Found' = Found
    BY <1>1, <1>4, <1>5 DEF Found
  <2>2. ASSUME NEW a \in Found PROVE Handle(arm'[a])
    <3>1. CASE a = ai
      BY <1>6, <3>1
    <3>2. CASE a # ai
      BY <1>4, <3>2 DEF LinkInv, Found
    <3>. QED  BY <3>1, <3>2
  <2>. QED  BY <2>1, <2>2
<1>8. ASSUME NEW w \in Found \X Uart, w # it PROVE Pty(w)' = Pty(w)
  <2>1. PICK a \in Found, u \in Uart : w = <<a, u>>
    OBVIOUS
  <2>2. CASE a = ai
    <3>1. u # pi
      BY <1>8, <2>1, <2>2
    <3>. QED  BY <1>6, <2>1, <2>2, <3>1 DEF Pty
  <2>3. CASE a # ai
    BY <1>4, <2>1, <2>3 DEF Pty, Found
  <2>. QED  BY <2>2, <2>3
<1>9. Pty(it)' = to
  BY <1>1, <1>6 DEF Pty
<1>10. /\ link' = [w \in Arm \X Uart |-> link'[w]] /\ (end = "well" => link'[it] = pts)
       /\ \A w \in Arm \X Uart : w # it => link'[w] = link[w]
  BY <1>1, <1>3 DEF LinkInv, Relink, PtySteps
<1>11. /\ link0' \in Seq(Nat) /\ extcomm_counter' = Len(link0')
       /\ Len(link0) <= Len(link0') /\ \A n \in 1..Len(link0) : link0'[n] = link0[n]
       /\ end = "well" => \E n \in 1..Len(link0') : link0'[n] = pts
  <2>1. CASE end \in {"nopty", "early"}
    BY <2>1 DEF armpty_open, LinkInv
  <2>2. CASE end \notin {"nopty", "early"}
    <3>1. /\ link0 \in Seq(Nat) /\ extcomm_counter = Len(link0)
          /\ extcomm_counter' = extcomm_counter + 1
          /\ link0' = Append(IF extcomm_counter = 0 THEN <<>> ELSE link0, pts)
      BY <2>2 DEF armpty_open, LinkInv
    <3>2. link0' = Append(link0, pts)
      BY <3>1
    <3>3. Len(link0') = Len(link0) + 1 /\ link0' \in Seq(Nat) /\ link0'[Len(link0) + 1] = pts
          /\ Len(link0) \in Nat /\ \A n \in 1..Len(link0) : link0'[n] = link0[n]
      BY <1>1, <3>1, <3>2
    <3>. QED  BY <3>1, <3>3
  <2>. QED  BY <2>1, <2>2
<1>12. \A w \in Open' : w # it => w \in Open
  BY <1>7, <1>8 DEF Open, Pty
<1>13. ASSUME NEW w \in Open, w # it PROVE Linked(w) /\ Linked(w)' /\ Passed(w)'
  <2>1. Linked(w) /\ Passed(w) /\ w \in Arm \X Uart /\ w \in Found \X Uart
    BY DEF LinkInv, Open, Found
  <2>2. Pty(w)' = Pty(w) /\ link'[w] = link[w]
    BY <1>8, <1>10, <1>13, <2>1
  <2>3. Pty(w)' \in 0..(pts' - 1)
    BY <1>1, <1>3, <2>1, <2>2 DEF Linked
  <2>4. \E n \in 1..Len(link0') : link0'[n] = Pty(w)'
    <3>1. PICK n \in 1..Len(link0) : link0[n] = Pty(w)
      BY <2>1 DEF Linked
    <3>2. n \in 1..Len(link0') /\ link0'[n] = link0[n]
      <4>1. Len(link0) \in Nat /\ Len(link0') \in Nat
        BY <1>11 DEF LinkInv
      <4>. QED  BY <1>11, <4>1
    <3>. QED  BY <2>2, <3>1, <3>2
  <2>5. Passed(w)'
    <3>1. w[1] < ai \/ (w[1] = ai /\ w[2] < pi)
      BY <2>1 DEF Passed
    <3>2. w[2] \in Nat
      BY <2>1 DEF Uart
    <3>. QED  BY <1>1, <3>1, <3>2 DEF Passed
  <2>. QED  BY <2>1, <2>2, <2>3, <2>4, <2>5 DEF Linked
<1>14. it \in Open' => end = "well" /\ Pty(it)' = pts /\ Linked(it)' /\ Passed(it)'
  <2>. SUFFICES ASSUME it \in Open'
                PROVE  end = "well" /\ Pty(it)' = pts /\ Linked(it)' /\ Passed(it)'
    OBVIOUS
  <2>1. end = "well" /\ Pty(it)' = pts
    BY <1>9 DEF Open, Pty
  <2>2. pts' = pts + 1 /\ pts \in 0..(pts' - 1)
    BY <1>1, <1>3, <2>1
  <2>3. Passed(it)'
    BY <1>1 DEF Passed
  <2>. QED  BY <1>10, <1>11, <2>1, <2>2, <2>3 DEF Linked
<1>15. \A w \in Open' : Passed(w)' /\ Linked(w)'
  BY <1>12, <1>13, <1>14
<1>16. ASSUME NEW v \in Open', NEW w \in Open', v # w, w # it PROVE Pty(v)' # Pty(w)'
  <2>1. w \in Open /\ Linked(w) /\ Pty(w)' = Pty(w)
    BY <1>8, <1>12, <1>13, <1>16 DEF Open
  <2>2. CASE v = it
    BY <1>1, <1>14, <2>1, <2>2 DEF Linked
  <2>3. CASE v # it
    <3>1. v \in Open /\ Pty(v)' = Pty(v)
      BY <1>8, <1>12, <2>3 DEF Open
    <3>. QED  BY <1>16, <2>1, <3>1 DEF LinkInv
  <2>. QED  BY <2>2, <2>3
<1>17. \A v, w \in Open' : v # w => Pty(v)' # Pty(w)'
  BY <1>16
<1>18. pts' \in Nat /\ pi' \in Nat
  BY <1>1, <1>3
<1>19. \A a \in Found' : Handle(arm[a])'
  BY <1>7 DEF Handle
<1>20. ai' \in 0..MAX_ARMS /\ (pc' \in {"firmware", "uarts"} => ai' \in Found')
  BY <1>1, <1>7 DEF LinkInv
<1>. QED  BY <1>4, <1>10, <1>11, <1>15, <1>17, <1>18, <1>19, <1>20 DEF LinkInv

LEMMA LinksInductive == LinkInv /\ [Next]_vars => LinkInv'
<1>. SUFFICES ASSUME LinkInv, [Next]_vars PROVE LinkInv'
  OBVIOUS
<1>1. CASE AddArm
  BY <1>1, AddLinks
<1>2. CASE CheckFirmware
  BY <1>2, FirmwareLinks
<1>3. CASE ArmsAdded
  <2>1. /\ UNCHANGED <<arm, names>> /\ pc = "arms" /\ pc' = "epoll" /\ ai' \in 0..MAX_ARMS
        /\ pi' \in Nat
    BY <1>3, StartupAssumption DEF ArmsAdded, LinkInv
  <2>. QED  BY <2>1, LinksKept
<1>4. ASSUME NoBoard \/ Register \/ UartsOpened PROVE LinkInv'
  <2>1. UNCHANGED <<arm, names>> /\ pc' \in {"epoll", "uarts"} /\ pi' \in Nat
    BY <1>4 DEF NoBoard, Register, UartsOpened, LinkInv
  <2>2. /\ ai' \in 0..MAX_ARMS /\ (pc' = "uarts" => ai' \in Found)
        /\ (ai' = ai /\ pc = "epoll") \/ (ai' = ai + 1 /\ pc' = "epoll")
    BY <1>4, StartupAssumption DEF NoBoard, Register, UartsOpened, LinkInv, Found, Arm
  <2>3. ASSUME NEW w \in Open, Passed(w) PROVE Passed(w)'
    <3>1. w[1] \in Nat /\ ai \in Nat /\ pc \in {"epoll", "uarts"}
      BY <1>4 DEF Open, Found, Arm, LinkInv, NoBoard, Register, UartsOpened
    <3>. QED  BY <2>1, <2>2, <2>3, <3>1 DEF Passed
  <2>. QED  BY <2>1, <2>2, <2>3, LinksKept
<1>5. CASE OpenUart
  <2>1. /\ pc = "uarts" /\ pc' = pc /\ pi \in Uart /\ pi' = pi + 1 /\ ai' = ai
        /\ \E end \in PtySteps : armpty_open(ai, pi, end)
    BY <1>5 DEF OpenUart
  <2>. QED  BY <2>1, OpenLinks
<1>6. CASE EnterLoop \/ Iterate \/ \E a \in Arm : CharArrives(a)
  <2>1. UNCHANGED <<arm, names>> /\ pc' = "loop" /\ ai' \in 0..MAX_ARMS /\ pi' \in Nat
    BY <1>6 DEF EnterLoop, Iterate, CharArrives, LinkInv
  <2>2. \A w \in Open : Passed(w)'
    BY <2>1 DEF Passed
  <2>. QED  BY <2>1, <2>2, LinksKept
<1>7. CASE UNCHANGED vars
  <2>1. UNCHANGED <<arm, link, link0, pts, extcomm_counter, pc, ai, pi>>
    BY <1>7 DEF vars, names
  <2>2. Found' = Found /\ Open' = Open /\ \A w : Pty(w)' = Pty(w) /\ (Passed(w)' <=> Passed(w))
    BY <2>1 DEF Found, Open, Pty, Passed
  <2>3. \A w \in Open : Linked(w)' <=> Linked(w)
    BY <2>1, <2>2 DEF Linked
  <2>4. \A a : Handle(arm[a])' <=> Handle(arm[a])
    BY <2>1 DEF Handle
  <2>. QED  BY <2>1, <2>2, <2>3, <2>4 DEF LinkInv
<1>. QED  BY <1>1, <1>2, <1>3, <1>4, <1>5, <1>6, <1>7 DEF Next, Start

\* For any number of boards and UARTs, any hardware, command line and leftovers,
\* whatever an update leaves of a board and any number of failed steps: when the loop
\* begins, the links of every UART that got a pty lead to that pty, and no other's do.
THEOREM LinksLeadHome == Spec => []LinksLead
<1>1. LinkInv => LinksLead
  <2>. SUFFICES ASSUME LinkInv, NEW w \in Open
                PROVE  /\ link[w] = Pty(w)
                       /\ \E n \in 1..Len(link0) : link0[n] = Pty(w)
                       /\ \A v \in Open \ {w} : link[v] # Pty(w)
    BY DEF LinksLead
  <2>1. \A v \in Open : Linked(v) /\ (v # w => Pty(v) # Pty(w))
    BY DEF LinkInv
  <2>. QED  BY <2>1 DEF Linked
<1>. QED  BY <1>1, InitLinks, LinksInductive, PTL DEF Spec
===============================================================================
