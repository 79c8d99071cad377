-------------------------------- MODULE MCAuth --------------------------------
EXTENDS Auth

CONSTANTS anna, ben, c0, c1, c2, c3

\* What the three calls ask.  Calls are interchangeable, so one order of each
\* choice is tried.
Plan(a, b, d) ==
    [c \in {c0, c1, c2, c3} |-> CASE c = c0 -> "login"
                                  [] c = c1 -> a
                                  [] c = c2 -> b
                                  [] c = c3 -> d]
Registrations == {Plan("register", "register", "verify"),
                  Plan("register", "verify", "verify"),
                  Plan("register", "verify", "login")}
Resets == {Plan("login", "login", None),
           Plan("forgot", "reset", "reset"),
           Plan("forgot", "reset", "login"),
           Plan("forgot", "reset", "refresh")}
Rotations == {Plan("refresh", "refresh", "use"),
              Plan("refresh", "logout", "use"),
              Plan("refresh", "revoke", "refresh"),
              Plan("logout", "logout", "use")}
Suspensions == {Plan("suspend", "login", "use"),
                Plan("suspend", "refresh", "use"),
                Plan("suspend", "suspend", "use")}
MCPlans == Registrations \union Resets \union Rotations \union Suspensions
=============================================================================
