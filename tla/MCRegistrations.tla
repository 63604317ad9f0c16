---------------------------- MODULE MCRegistrations ----------------------------
(* One agent of the configuration, two newcomers, and files that repeat and move them. *)
EXTENDS Registrations

CONSTANTS ann, bob, cat, a1, a2, a3, env

Entry(id, address) == [id |-> id, address |-> address]
MCAddresses == {a1, a2, a3, env}
MCRoster == {Entry(ann, a1)}
MCFiles ==
    { <<>>, <<Entry(ann, a1), Entry(bob, a2)>>,
      <<Entry(bob, a2), Entry(cat, a2), Entry(cat, a3)>>,   \* two want one address, one of them twice
      <<Entry(cat, a1), Entry(bob, a3)>>,                   \* an address and perhaps an id that are taken
      <<Entry(cat, env)>> }                                  \* taken, but not known at the start
MCEnv == {env}
MCExplicit == {a1}
OneNewcomer == { <<Entry(bob, a2)>> }
=============================================================================
