------------------------------ MODULE MCVault ------------------------------
EXTENDS Vault

(* A passphrase: every salt gives its own key. *)
Derived == [s \in Salts |-> <<"derived", s>>]
DerivedKeys == {Derived[s] : s \in Salts}
=============================================================================
