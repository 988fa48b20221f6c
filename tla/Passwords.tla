------------------------------ MODULE Passwords ------------------------------
(***************************************************************************)
(* changePassword, requestPasswordReset and resetPassword of AuthService,  *)
(* for one user.  A reset changes the password and spends its token in     *)
(* three statements that are no transaction: another request can act, and  *)
(* the process can die, between any two of them.                           *)
(***************************************************************************)
EXTENDS Naturals, Sequences

CONSTANTS
  Values,        \* passwords the user may choose
  Tokens,        \* PasswordResetToken rows
  Changers,      \* slots for changes and resets in flight
  HistoryLimit   \* PASSWORD_HISTORY_LIMIT

ASSUME PasswordsAssumption == HistoryLimit \in Nat \ {0}

VARIABLES
  hash,          \* User.passwordHash, as the password it is of
  recent,        \* User.passwordHistory, newest first
  token,         \* state of each token: none, live, used, expired
  changer,       \* what each request in flight has read, and its next step
  spent,         \* history: tokens that have changed the password
  undone         \* history: tokens whose reset died before it spent them

passwordVars == <<hash, recent, token, changer, spent, undone>>

NoChange == [at |-> "idle"]
TokenStates == {"none", "live", "used", "expired"}
ChangerRows == {NoChange}
  \cup [at : {"change"}, new : Values, had : Seq(Values)]
  \cup [at : {"user"}, token : Tokens]
  \cup [at : {"write", "mark", "others"}, token : Tokens, new : Values, had : Seq(Values)]
InHistory(v, h) == \E i \in DOMAIN h : h[i] = v

\* [newHash, ...history].slice(0, PASSWORD_HISTORY_LIMIT)
Remember(v, h) ==
  [i \in 1..(IF Len(h) < HistoryLimit THEN Len(h) + 1 ELSE HistoryLimit) |->
     IF i = 1 THEN v ELSE h[i - 1]]

PasswordsInit ==
  /\ hash \in Values
  /\ recent = <<hash>>
  /\ token = [t \in Tokens |-> "none"]
  /\ changer = [c \in Changers |-> NoChange]
  /\ spent = {} /\ undone = {}

Continue(c, step) == changer' = [changer EXCEPT ![c].at = step]

-----------------------------------------------------------------------------
\* Mutant: the new password is not compared with the last ones.
ChangeReadAny(c, new) ==
  /\ changer[c] = NoChange
  /\ changer' = [changer EXCEPT ![c] = [at |-> "change", new |-> new, had |-> recent]]
  /\ UNCHANGED <<hash, recent, token, spent, undone>>

\* The caller proved the current password; assertNotRecentPassword passed.
ChangeRead(c, new) ==
  /\ changer[c] = NoChange
  /\ ~ InHistory(new, recent)
  /\ changer' = [changer EXCEPT ![c] = [at |-> "change", new |-> new, had |-> recent]]
  /\ UNCHANGED <<hash, recent, token, spent, undone>>

\* The history written is the one read, with the new hash before it.
WritePassword(c) ==
  /\ hash' = changer[c].new
  /\ recent' = Remember(changer[c].new, changer[c].had)

ChangeWrite(c) ==
  /\ changer[c].at = "change"
  /\ WritePassword(c)
  /\ changer' = [changer EXCEPT ![c] = NoChange]
  /\ UNCHANGED <<token, spent, undone>>

-----------------------------------------------------------------------------
RequestPasswordReset(t) ==
  /\ token[t] = "none"
  /\ token' = [token EXCEPT ![t] = "live"]
  /\ UNCHANGED <<hash, recent, changer, spent, undone>>

TokenExpires(t) ==
  /\ token[t] = "live"
  /\ token' = [token EXCEPT ![t] = "expired"]
  /\ UNCHANGED <<hash, recent, changer, spent, undone>>

ResetFind(c, t) ==
  /\ changer[c] = NoChange
  /\ token[t] = "live"
  /\ changer' = [changer EXCEPT ![c] = [at |-> "user", token |-> t]]
  /\ UNCHANGED <<hash, recent, token, spent, undone>>

ResetRead(c, new) ==
  /\ changer[c].at = "user"
  /\ ~ InHistory(new, recent)
  /\ changer' = [changer EXCEPT ![c] =
       [at |-> "write", token |-> changer[c].token, new |-> new, had |-> recent]]
  /\ UNCHANGED <<hash, recent, token, spent, undone>>

ResetWrite(c) ==
  /\ changer[c].at = "write"
  /\ WritePassword(c)
  /\ spent' = spent \cup {changer[c].token}
  /\ Continue(c, "mark")
  /\ UNCHANGED <<token, undone>>

\* Mutant: a reset closes the other tokens only.
ResetMarkNothing(c) ==
  /\ changer[c].at = "mark"
  /\ Continue(c, "others")
  /\ UNCHANGED <<hash, recent, token, spent, undone>>

ResetMark(c) ==
  /\ changer[c].at = "mark"
  /\ token' = [token EXCEPT ![changer[c].token] = "used"]
  /\ Continue(c, "others")
  /\ UNCHANGED <<hash, recent, spent, undone>>

\* usedAt of every other token of the user that has none, run out or not.
ResetCloseOthers(c) ==
  /\ changer[c].at = "others"
  /\ token' = [t \in Tokens |->
       IF token[t] \in {"live", "expired"} /\ t # changer[c].token THEN "used" ELSE token[t]]
  /\ changer' = [changer EXCEPT ![c] = NoChange]
  /\ UNCHANGED <<hash, recent, spent, undone>>

ChangerDies(c) ==
  /\ changer[c] # NoChange
  /\ undone' = IF changer[c].at = "mark" THEN undone \cup {changer[c].token} ELSE undone
  /\ changer' = [changer EXCEPT ![c] = NoChange]
  /\ UNCHANGED <<hash, recent, token, spent>>

PasswordsNext ==
  \/ \E c \in Changers :
       \/ \E v \in Values : ChangeRead(c, v) \/ ResetRead(c, v)
       \/ \E t \in Tokens : ResetFind(c, t)
       \/ ChangeWrite(c) \/ ResetWrite(c) \/ ResetMark(c) \/ ResetCloseOthers(c)
       \/ ChangerDies(c)
  \/ \E t \in Tokens : RequestPasswordReset(t) \/ TokenExpires(t)

PasswordsSpec == PasswordsInit /\ [][PasswordsNext]_passwordVars

-----------------------------------------------------------------------------
\* A token that can still be used has changed no password, unless the reset it
\* was used for stands between the two statements or died there.  It is not
\* promised that a token changes the password once: of two resets that found
\* the token live, both do.
SpentTokenIsClosed ==
  \A t \in spent :
    \/ token[t] # "live"
    \/ t \in undone
    \/ \E c \in Changers : changer[c].at = "mark" /\ changer[c].token = t

\* However changes and resets overlap, the current password heads the history
\* and the history holds different passwords, at most HistoryLimit of them:
\* the next change cannot choose the password that is in use.
HistoryOf(h) ==
  /\ Len(h) \in 1..HistoryLimit
  /\ \A i, j \in DOMAIN h : h[i] = h[j] => i = j

RecentIsDistinct ==
  /\ HistoryOf(recent) /\ recent[1] = hash
  /\ \A c \in Changers : changer[c].at \in {"change", "write"} =>
       HistoryOf(changer[c].had) /\ ~ InHistory(changer[c].new, changer[c].had)

\* The variables hold what their rows and steps can hold, and a token that was
\* found or spent has been issued.
PasswordsTypeOK ==
  /\ hash \in Values /\ recent \in Seq(Values)
  /\ token \in [Tokens -> TokenStates]
  /\ changer \in [Changers -> ChangerRows]
  /\ spent \subseteq Tokens /\ undone \subseteq Tokens

IssuedBeforeUse ==
  /\ \A t \in spent : token[t] # "none"
  /\ \A c \in Changers : changer[c].at \in {"user", "write", "mark", "others"} =>
       token[changer[c].token] # "none"

PasswordsInv == PasswordsTypeOK /\ RecentIsDistinct /\ SpentTokenIsClosed /\ IssuedBeforeUse
=============================================================================
