---------------------------- MODULE WalletSession ----------------------------
(***************************************************************************)
(* The wallet session of the frontend: the context every part of the page  *)
(* shares (context/WalletContext.tsx), the connection to each wallet       *)
(* (lib/wallet.ts), the social login, which holds a key in memory          *)
(* (lib/web3auth.ts), and what the modal offers                            *)
(* (components/WalletConnectModal.tsx).                                    *)
(***************************************************************************)
EXTENDS EventLoop

CONSTANTS
    WalletAccounts,
    MaxReloads      \* bound: reloads of the page

WalletProviders == {"freighter", "albedo", "ledger", "web3auth"}

ASSUME WalletAssumption ==
    None \notin WalletAccounts \cup WalletProviders /\ MaxReloads \in Nat

VARIABLES
    persisted,      \* localStorage: the provider and address to restore, or None
    session,        \* the provider and address of the page, or None
    connecting,     \* the provider a call of connectWallet awaits, or None
    restoring,      \* the persisted session that restoreSession is restoring, or None
    web3auth,       \* the client: "none", "initialising", "ready" or "broken"
    social,         \* the account the client is logged in with; survives the page
    activeKeypair,  \* the account whose key is in memory
    signedOut,      \* the user disconnected, nothing was pending, and has not connected since
    hasty,          \* a connection was asked for while this page restored its session
    reloads

walletVars == <<persisted, session, connecting, restoring, web3auth, social,
                activeKeypair, signedOut, hasty, reloads>>

Wallet(p, a) == [provider |-> p, address |-> a]

WalletInit ==
    /\ persisted = None
    /\ session = None
    /\ connecting = None
    /\ restoring = None
    /\ web3auth = "none"
    /\ social = None
    /\ activeKeypair = None
    /\ signedOut = FALSE
    /\ hasty = FALSE
    /\ reloads = 0

\* The first part of restoreSession, up to its first await: Albedo's address is taken
\* as it is, a Ledger is not restored.
Restored(providers) ==
    IF persisted # None /\ persisted.provider \in providers THEN persisted ELSE None

Mount ==
    /\ reloads < MaxReloads
    /\ reloads' = reloads + 1
    /\ session' = Restored({"albedo"})
    /\ restoring' = Restored({"freighter", "web3auth"})
    /\ web3auth' = IF Restored({"web3auth"}) # None THEN "initialising" ELSE "none"
    /\ connecting' = None
    /\ activeKeypair' = None
    /\ hasty' = FALSE
    /\ UNCHANGED <<persisted, social, signedOut>>

\* The extension is absent, locked or fails; or it names its account of the moment.
RestoreFreighter ==
    /\ restoring # None /\ restoring.provider = "freighter"
    /\ restoring' = None
    /\ session' \in {session} \cup {Wallet("freighter", a) : a \in WalletAccounts}
    /\ UNCHANGED <<persisted, connecting, web3auth, social, activeKeypair, signedOut, hasty, reloads>>

\* init() ends.  Its client is kept when it throws, and never initialised again.
ClientReady ==
    /\ web3auth = "initialising"
    /\ web3auth' \in {"ready", "broken"}
    /\ UNCHANGED <<persisted, session, connecting, restoring, social, activeKeypair, signedOut,
                   hasty, reloads>>

\* The client has no login, or its key cannot be had: the session is forgotten.  The
\* key of another account than the persisted one is given up, and logged out of.
RestoreSocial ==
    /\ restoring # None /\ restoring.provider = "web3auth"
    /\ web3auth \in {"ready", "broken"}
    /\ restoring' = None
    /\ \/ /\ persisted' = None
          /\ UNCHANGED <<session, social, activeKeypair>>
       \/ /\ web3auth = "ready" /\ social = restoring.address
          /\ activeKeypair' = social
          /\ session' = restoring
          /\ UNCHANGED <<persisted, social>>
       \/ /\ web3auth = "ready" /\ social \notin {None, restoring.address}
          /\ activeKeypair' = None
          /\ social' \in {social, None}
          /\ persisted' = None
          /\ UNCHANGED session
    /\ UNCHANGED <<connecting, web3auth, signedOut, hasty, reloads>>
-----------------------------------------------------------------------------
\* The modal offers the wallets to a page without a session, one at a time.
MayConnect == session = None /\ connecting = None

ConnectWallet(p) ==
    /\ MayConnect
    /\ connecting' = p
    /\ web3auth' = IF p = "web3auth" /\ web3auth = "none" THEN "initialising" ELSE web3auth
    /\ signedOut' = FALSE
    /\ hasty' = (hasty \/ restoring # None)
    /\ UNCHANGED <<persisted, session, restoring, social, activeKeypair, reloads>>

ConnectionFails ==
    /\ connecting # None
    /\ connecting' = None
    /\ UNCHANGED <<persisted, session, restoring, web3auth, social, activeKeypair, signedOut,
                   hasty, reloads>>

\* Mutant: only a restored session is persisted.
SignedIn_Unpersisted(w) ==
    /\ session' = w
    /\ connecting' = None
    /\ UNCHANGED persisted

SignedIn(w) ==
    /\ session' = w
    /\ persisted' = w
    /\ connecting' = None

\* connectWithFreighter, connectWithAlbedo, connectWithLedger
WalletConnects(a) ==
    /\ connecting \in WalletProviders \ {"web3auth"}
    /\ SignedIn(Wallet(connecting, a))
    /\ UNCHANGED <<restoring, web3auth, social, activeKeypair, signedOut, hasty, reloads>>

\* connectWithWeb3Auth uses the login there is, or asks for one.
SocialConnects(a) ==
    /\ connecting = "web3auth"
    /\ web3auth = "ready"
    /\ social \in {None, a}
    /\ social' = a
    /\ activeKeypair' = a
    /\ SignedIn(Wallet("web3auth", a))
    /\ UNCHANGED <<restoring, web3auth, signedOut, hasty, reloads>>

\* The key is dropped at once; the client's logout goes on behind.
DisconnectWallet ==
    /\ session # None
    /\ session' = None
    /\ persisted' = None
    /\ signedOut' = (connecting = None /\ restoring = None)
    /\ activeKeypair' = IF session.provider = "web3auth" THEN None ELSE activeKeypair
    /\ UNCHANGED <<connecting, restoring, web3auth, social, hasty, reloads>>

\* The logout ends, or the login expires by itself.
LoggedOut ==
    /\ social # None
    /\ social' = None
    /\ UNCHANGED <<persisted, session, connecting, restoring, web3auth, activeKeypair, signedOut,
                   hasty, reloads>>

WalletNext ==
    \/ Mount \/ RestoreFreighter \/ ClientReady \/ RestoreSocial
    \/ \E p \in WalletProviders : ConnectWallet(p)
    \/ ConnectionFails
    \/ \E a \in WalletAccounts : WalletConnects(a) \/ SocialConnects(a)
    \/ DisconnectWallet \/ LoggedOut

WalletSpec == WalletInit /\ [][WalletNext]_walletVars
-----------------------------------------------------------------------------
\* A social session signs with the key of the address it shows, whatever account the
\* client turns out to be logged in with after a reload, unless the user connected
\* while the session was being restored: then the two write over each other
\* (restoreWeb3AuthSession, connectWithWeb3Auth).
SocialSessionSigns ==
    session # None /\ session.provider = "web3auth" /\ ~ hasty
        => activeKeypair = session.address

\* The session of the page is the one a reload goes back to; with Freighter, whose
\* account may have changed, the same wallet.  A restore that ends after the user has
\* connected shows another session than was persisted, or forgets it.
SessionIsPersisted ==
    session # None /\ ~ hasty =>
        /\ persisted # None
        /\ persisted.provider = session.provider
        /\ session.provider # "freighter" => persisted = session

\* Who disconnects while nothing is pending stays disconnected, in this page and after
\* reloads, until asking for a connection again (disconnectWallet, restoreSession).
DisconnectIsForGood == signedOut => session = None

\* A session is what it shows: signed with its key, found again by a reload, and over when
\* the user ends it.
SessionIsTheUsers == SocialSessionSigns /\ SessionIsPersisted /\ DisconnectIsForGood
=============================================================================
