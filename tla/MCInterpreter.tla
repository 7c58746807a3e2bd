--------------------------- MODULE MCInterpreter ---------------------------
(* Two user names and the automatic variable, two numbers and a boolean.   *)
EXTENDS Interpreter

(* Nothing in the interpreter tells one user name from another.            *)
NameSymmetry == Permutations(Names)

(* What the program n := 1, or ~n := 1, leaves: the statements of the run  *)
(* are begun after it, or by a new interpreter.                            *)
After(n, m) ==
  /\ heap = <<[kind |-> "f64", val |-> 1]>>
  /\ symbols = [k \in {n, Ans} |-> 1]
  /\ mutables = [k \in (IF m THEN {n} ELSE {}) |-> 1]
  /\ plan = <<Step("define", <<>>, 1)>>
  /\ begun = 0 /\ mode = "idle" /\ result = "ok"
  /\ stmt = NoStmt /\ frames = <<>> /\ elems = <<>> /\ machines = <<>>
  /\ cursor = NoCursor

MCInit == Init \/ \E n \in Names, m \in BOOLEAN : After(n, m)

MCSpec == MCInit /\ [][Next]_vars
=============================================================================
