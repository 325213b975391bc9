\* One execution with a race of two gateways, and everything a chain can carry, on
\* both kinds of file system.
SPECIFICATION FairSpec
CONSTANTS
    r1 = r1
    r2 = r2
    linky = linky
    junk = junk
    a1 = a1
    a2 = a2
    Signed = {r1, linky}
    Others = {Noise, Prose}
    Seeds = {s1}
    Gateways = {g1, g2}
    Bodies <- MCBodies
    Releases <- MCReleases
    Contents <- MCContents
    Manifests <- MCManifests
    Posts <- MCPosts
    Modes <- MCModes
    Noise = Noise
    Prose = Prose
    NoSignature = NoSignature
    NoDir = NoDir
    NoPid = NoPid
    MaxFiles = 2
    MaxBytes = 2
    MaxPosts = 2
    Layouts = {"same", "cross"}
CHECK_DEADLOCK FALSE
INVARIANTS
    OutputClosed
    LoadedVerified
PROPERTY SeedEnds
