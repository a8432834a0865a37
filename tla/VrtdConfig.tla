----------------------------- MODULE VrtdConfig -----------------------------
(***************************************************************************)
(* The role based access control of vrtd: loading the INI configuration    *)
(* with its includes (config.c), merging the roles a connection holds, and *)
(* the permission check every request goes through (auth.c).               *)
(*                                                                         *)
(* A file system maps a canonical path to the lines of that file, in       *)
(* order.  A path is a pair <<directory, name>>, a directory a sequence of *)
(* names.  A line is a record whose "key" says what the INI callback makes *)
(* of it:                                                                  *)
(*   include       path                        include = <path>            *)
(*   include-glob  relative, dir               include-glob = <dir>/*.conf *)
(*   role          role, value                 [role:r] query-devices      *)
(*   policy        role, bdf, flag, value      [role:r:bdf] flag = value   *)
(*   user, group   name, role                  [user:n] or [group:n]       *)
(*   other                                     an unknown section or key   *)
(* Values are "yes" (or "full"), "no" and "bad".  A name that the password *)
(* or group database does not know is a name outside Users or Groups.      *)
(***************************************************************************)
EXTENDS Naturals, Sequences, FiniteSetsExt, Functions

CONSTANTS
    Users,      \* the user ids the password database knows
    Groups,     \* the group ids the group database knows
    Boards      \* board level PCI addresses (bdf)

\* The per-device permission flags, enum auth_subsystem.
Subsystems == {"bar", "qdma", "buffer", "design_write", "cfgmem_program",
               "clock", "pcie_hotplug", "raw_mem_access"}

\* A finite set as a sequence, in the order a directory scan happens to give it.
SetToSeq(S) == CHOOSE f \in [1..Cardinality(S) -> S] : IsInjective(f)

\* A list without its i-th element.
RemoveAt(s, i) == SubSeq(s, 1, i - 1) \o SubSeq(s, i + 1, Len(s))

\* state->config after a load that failed.
NoConfig == [loaded |-> FALSE]

\* A role before its first key: calloc.
EmptyRole == [query |-> FALSE, policies |-> [b \in {} |-> {}]]

----------------------------------------------------------------------------
(* Loading *)

EmptyConfig ==
    [loaded |-> TRUE, roles |-> [r \in {} |-> EmptyRole], default_user |-> {},
     users |-> [u \in {} |-> {}], groups |-> [g \in {} |-> {}]]

\* find-or-create: f with x bound to v.
Bind(f, x, v) == [y \in DOMAIN f \cup {x} |-> IF y = x THEN v ELSE f[y]]

\* f[x], or the value a fresh entry has.
Lookup(f, x, fresh) == IF x \in DOMAIN f THEN f[x] ELSE fresh

\* The directory of a path.
Dir(path) == path[1]

(***************************************************************************)
(* The parse state: todo is the lines still to be handled, innermost file  *)
(* first, each with the file it stands in; visited is visited_files, which *)
(* only grows; globbed records, for every include-glob, the file it stands *)
(* in and the directory it was resolved to.                                *)
(***************************************************************************)
Fail(st) == [st EXCEPT !.error = TRUE]

\* parse_file: a path that does not exist fails, a visited file is skipped.
ParseFile(fs, st, path) ==
    IF path \notin DOMAIN fs THEN Fail(st)
    ELSE IF path \in Range(st.visited) THEN st
    ELSE [st EXCEPT !.visited = Append(@, path),
                    !.todo = [i \in 1..Len(fs[path]) |->
                                 [file |-> path, line |-> fs[path][i]]] \o @]

\* resolve_relative_pattern: relative to the directory of the file entered last.
ResolvePattern(st, line) ==
    IF line.relative THEN Dir(st.visited[Len(st.visited)]) \o line.dir ELSE line.dir

\* parse_file_glob: parse_file on every match, in the fixed order glob() gives them.
ParseFileGlob(fs, st, item) ==
    LET dir == ResolvePattern(st, item.line)
        matches == SetToSeq({p \in DOMAIN fs : Dir(p) = dir})
    IN [st EXCEPT !.globbed = @ \cup {<<item.file, item.line, dir>>},
                  !.todo = [i \in 1..Len(matches) |->
                               [file |-> item.file,
                                line |-> [key |-> "include", path |-> matches[i]]]] \o @]

\* role_add_value: query-devices = yes | no.
AddRole(st, l) ==
    IF l.value \notin {"yes", "no"} THEN Fail(st)
    ELSE LET role == Lookup(st.config.roles, l.role, EmptyRole)
         IN [st EXCEPT !.config.roles =
                 Bind(@, l.role, [role EXCEPT !.query = (l.value = "yes")])]

\* role_device_find_and_add_value and device_policy_add_value.
AddPolicy(st, l) ==
    IF \/ l.bdf \notin Boards \cup {"any"}
       \/ l.flag \notin Subsystems
       \/ l.value \notin (IF l.flag = "bar" THEN {"yes"} ELSE {"yes", "no"})
    THEN Fail(st)
    ELSE LET role == Lookup(st.config.roles, l.role, EmptyRole)
             flags == Lookup(role.policies, l.bdf, {})
         IN [st EXCEPT !.config.roles =
                 Bind(@, l.role,
                      [role EXCEPT !.policies =
                          Bind(@, l.bdf, IF l.value = "yes" THEN flags \cup {l.flag}
                                                            ELSE flags \ {l.flag})])]

\* user_find_and_add_value: "*" is the default user, an unknown user fails.
AddUser(st, l) ==
    IF l.name = "*" THEN [st EXCEPT !.config.default_user = @ \cup {l.role}]
    ELSE IF l.name \notin Users THEN Fail(st)
    ELSE [st EXCEPT !.config.users = Bind(@, l.name, Lookup(@, l.name, {}) \cup {l.role})]

\* group_find_and_add_value.
AddGroup(st, l) ==
    IF l.name \notin Groups THEN Fail(st)
    ELSE [st EXCEPT !.config.groups = Bind(@, l.name, Lookup(@, l.name, {}) \cup {l.role})]

\* parse_config_callback on the next line; inih goes on after a failed line.
ParseStep(fs, state) ==
    IF state.todo = << >> THEN state
    ELSE LET item == Head(state.todo)
             st == [state EXCEPT !.todo = Tail(@)]
             l == item.line
         IN CASE l.key = "include" -> ParseFile(fs, st, l.path)
              [] l.key = "include-glob" -> ParseFileGlob(fs, st, item)
              [] l.key = "role" -> AddRole(st, l)
              [] l.key = "policy" -> AddPolicy(st, l)
              [] l.key = "user" -> AddUser(st, l)
              [] l.key = "group" -> AddGroup(st, l)
              [] OTHER -> st

\* Each file is entered once, so this many steps reach the end of the parse.
ParseBound(fs) ==
    1 + FoldSet(LAMBDA p, n : n + Len(fs[p]) * (1 + Cardinality(DOMAIN fs)), 0, DOMAIN fs)

\* The parse of the file system fs from the file main, to its end.
Parse(fs, main) ==
    LET start == ParseFile(fs, [config |-> EmptyConfig, visited |-> << >>, todo |-> << >>,
                                error |-> FALSE, globbed |-> {}], main)
        after[n \in 0..ParseBound(fs)] ==
            IF n = 0 THEN start ELSE ParseStep(fs, after[n - 1])
    IN after[ParseBound(fs)]

\* assign_users_roles, assign_groups_roles: names of roles nobody defined are dropped.
AssignRoles(config) ==
    LET known(names) == names \cap DOMAIN config.roles
    IN [config EXCEPT !.default_user = known(@),
                      !.users = [u \in DOMAIN @ |-> known(@[u])],
                      !.groups = [g \in DOMAIN @ |-> known(@[g])]]

\* config_load.
ConfigLoad(fs, main) ==
    LET st == Parse(fs, main)
    IN IF st.error THEN NoConfig ELSE AssignRoles(st.config)

----------------------------------------------------------------------------
(* Roles and permissions *)

\* role_merge_add_role: query and every flag of every policy is ORed.
RoleMergeAddRole(dst, src) ==
    [query |-> dst.query \/ src.query,
     policies |-> [b \in DOMAIN dst.policies \cup DOMAIN src.policies |->
                      Lookup(dst.policies, b, {}) \cup Lookup(src.policies, b, {})]]

\* The roles a connection holds: default user, its uid, its gids.
RolesOf(config, uid, gids) ==
    config.default_user
        \cup Lookup(config.users, uid, {})
        \cup UNION {Lookup(config.groups, g, {}) : g \in gids}

\* ensure_role with no cached role: the merge of every role that applies.
MergedRole(config, uid, gids) ==
    FoldSet(LAMBDA r, acc : RoleMergeAddRole(acc, config.roles[r]), EmptyRole,
            RolesOf(config, uid, gids))

\* auth_check_device_permission once the device exists: exact policy, else "any".
DevicePermission(role, bdf, subsystem) ==
    /\ role.query
    /\ \/ bdf \in DOMAIN role.policies /\ subsystem \in role.policies[bdf]
       \/ /\ bdf \notin DOMAIN role.policies
          /\ "any" \in DOMAIN role.policies
          /\ subsystem \in role.policies["any"]

=============================================================================
