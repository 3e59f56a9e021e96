\* Watchdog, ioctls, tasks, handler and controller.
CONSTANTS
    Group = {"g1", "g2"}
    Hash <- MCHash
    Link <- MCLink
    FirstMode <- MCFirstMode
SPECIFICATION FairSpec
INVARIANTS SettingsRight
PROPERTIES ConfigOnlyStopped ConfigLeft LinkFollowed
